---------------------------- MODULE Spec2Model ----------------------------
(***************************************************************************)
(* A model of the e-pragati update analysis service: the field normalizer  *)
(* (parse_json_array), the metric extractor (calculate_metrics), the score *)
(* aggregator (calculate_overall_score), the tier classifier               *)
(* (get_employee_ratings) and the trend handlers of routers/analytics.py.  *)
(*                                                                         *)
(* Modelling conventions                                                   *)
(*  - A Python value is a record [t, v]: t is the type tag, v the payload. *)
(*    A str is a sequence of lexemes (TLA+ strings): a word, a number, or  *)
(*    one JSON punctuation mark.  json.loads really parses that sequence.  *)
(*  - A float is an exact rational <<n, d>> with d > 0 in lowest terms.    *)
(*  - A timestamp is a whole number of days.                               *)
(*  - A call's outcome is [exc, val]: exc = "" when it returned val, and   *)
(*    the exception's class name when it raised.                           *)
(***************************************************************************)
EXTENDS Integers, Sequences, FiniteSets, TLC

VARIABLES
    team_members,   \* the team_members table, in primary-key order
    updates,        \* the updates table, in primary-key order
    now,            \* datetime.now(), in days
    response,       \* the outcome of the last request handled
    nz,             \* a call of parse_json_array: its argument and results
    cm,             \* a call of calculate_metrics: its arguments and result
    embedding_calls, \* the texts sent to the embedding service by the last analysis
    requests        \* the POST /analyze requests received, each with its position

vars == <<team_members, updates, now, response, nz, cm, embedding_calls, requests>>

(***************************************************************************)
(* Bounds of the model.                                                    *)
(***************************************************************************)
MaxLex == 3         \* lexemes of an enumerated raw string
MaxItems == 2       \* elements of an enumerated list
MaxUpdates == 2     \* rows of the updates table
MaxBatch == 2       \* updates handed to one call of calculate_metrics
MaxTeam == 10       \* members of the large team
MaxChain == 3       \* updates of one member in the similarity analysis
MaxFailures == 1    \* embedding calls that fail in one analysis

(***************************************************************************)
(* Python values.                                                          *)
(***************************************************************************)
Q == "\""

PyNone == [t |-> "none", v |-> <<>>]
PyStr(lexemes) == [t |-> "str", v |-> lexemes]
PyInt(lexeme) == [t |-> "int", v |-> <<lexeme>>]
PyBool(lexeme) == [t |-> "bool", v |-> <<lexeme>>]
PyList(items) == [t |-> "list", v |-> items]
\* a dict's payload is its items flattened: key1, value1, key2, value2, ...
PyDict(items) == [t |-> "dict", v |-> items]

Return(value) == [exc |-> "", val |-> value]
Raise(class) == [exc |-> class, val |-> PyNone]

NumberLexemes == {"5", "80"}

(***************************************************************************)
(* json.loads: a recursive-descent parse of the lexemes of a str.          *)
(* A parse step yields [ok, val, nxt]: the value read and the position of  *)
(* the first lexeme after it.                                              *)
(***************************************************************************)
NoParse == [ok |-> FALSE, val |-> PyNone, nxt |-> 0]
Parsed(value, next) == [ok |-> TRUE, val |-> value, nxt |-> next]

\* the position of the first quote at or after i, or 0
RECURSIVE ClosingQuote(_, _)
ClosingQuote(s, i) ==
    IF i > Len(s) THEN 0
    ELSE IF s[i] = Q THEN i
    ELSE ClosingQuote(s, i + 1)

\* a dict keeps one item per key: a repeated key keeps its place and takes the
\* later value
RECURSIVE DictPut(_, _, _, _)
DictPut(items, i, key, value) ==
    IF i > Len(items) THEN items \o <<key, value>>
    ELSE IF items[i] = key THEN [items EXCEPT ![i + 1] = value]
    ELSE DictPut(items, i + 2, key, value)

RECURSIVE ParseValue(_, _)
RECURSIVE ParseElements(_, _, _)
RECURSIVE ParseMembers(_, _, _)

ParseValue(s, i) ==
    IF i > Len(s) THEN NoParse
    ELSE IF s[i] = "null" THEN Parsed(PyNone, i + 1)
    ELSE IF s[i] = "true" THEN Parsed(PyBool("true"), i + 1)
    ELSE IF s[i] \in NumberLexemes THEN Parsed(PyInt(s[i]), i + 1)
    ELSE IF s[i] = Q THEN
        LET j == ClosingQuote(s, i + 1) IN
        IF j = 0 THEN NoParse
        ELSE Parsed(PyStr(SubSeq(s, i + 1, j - 1)), j + 1)
    ELSE IF s[i] = "[" THEN
        IF i + 1 <= Len(s) /\ s[i + 1] = "]" THEN Parsed(PyList(<<>>), i + 2)
        ELSE ParseElements(s, i + 1, <<>>)
    ELSE IF s[i] = "{" THEN
        IF i + 1 <= Len(s) /\ s[i + 1] = "}" THEN Parsed(PyDict(<<>>), i + 2)
        ELSE ParseMembers(s, i + 1, <<>>)
    ELSE NoParse

ParseElements(s, i, acc) ==
    LET r == ParseValue(s, i) IN
    IF ~r.ok \/ r.nxt > Len(s) THEN NoParse
    ELSE IF s[r.nxt] = "," THEN ParseElements(s, r.nxt + 1, Append(acc, r.val))
    ELSE IF s[r.nxt] = "]" THEN Parsed(PyList(Append(acc, r.val)), r.nxt + 1)
    ELSE NoParse

ParseMembers(s, i, acc) ==
    IF i > Len(s) \/ s[i] # Q THEN NoParse
    ELSE
        LET k == ParseValue(s, i) IN
        IF ~k.ok \/ k.nxt > Len(s) \/ s[k.nxt] # ":" THEN NoParse
        ELSE
            LET r == ParseValue(s, k.nxt + 1) IN
            IF ~r.ok \/ r.nxt > Len(s) THEN NoParse
            ELSE IF s[r.nxt] = ","
                THEN ParseMembers(s, r.nxt + 1, DictPut(acc, 1, k.val, r.val))
            ELSE IF s[r.nxt] = "}"
                THEN Parsed(PyDict(DictPut(acc, 1, k.val, r.val)), r.nxt + 1)
            ELSE NoParse

\* json.loads(x): TypeError unless x is a str; JSONDecodeError unless the whole
\* text is one JSON value
json_loads(x) ==
    IF x.t # "str" THEN Raise("TypeError")
    ELSE
        LET r == ParseValue(x.v, 1) IN
        IF r.ok /\ r.nxt = Len(x.v) + 1 THEN Return(r.val)
        ELSE Raise("JSONDecodeError")

(***************************************************************************)
(* json.dumps, on the values json.loads yields.                            *)
(***************************************************************************)
RECURSIVE json_dumps_lexemes(_)
RECURSIVE DumpElements(_, _)
RECURSIVE DumpMembers(_, _)

DumpElements(items, i) ==
    IF i > Len(items) THEN <<>>
    ELSE (IF i > 1 THEN <<",">> ELSE <<>>)
            \o json_dumps_lexemes(items[i]) \o DumpElements(items, i + 1)

DumpMembers(items, i) ==
    IF i > Len(items) THEN <<>>
    ELSE (IF i > 1 THEN <<",">> ELSE <<>>)
            \o json_dumps_lexemes(items[i]) \o <<":">>
            \o json_dumps_lexemes(items[i + 1]) \o DumpMembers(items, i + 2)

json_dumps_lexemes(x) ==
    IF x.t = "none" THEN <<"null">>
    ELSE IF x.t \in {"int", "bool"} THEN x.v
    ELSE IF x.t = "str" THEN <<Q>> \o x.v \o <<Q>>
    ELSE IF x.t = "list" THEN <<"[">> \o DumpElements(x.v, 1) \o <<"]">>
    ELSE <<"{">> \o DumpMembers(x.v, 1) \o <<"}">>

json_dumps(x) == PyStr(json_dumps_lexemes(x))

(***************************************************************************)
(* parse_json_array (main.py and routers/analytics.py hold the same text). *)
(***************************************************************************)
\* the function without its last handler, "except Exception"
parse_json_array_no_catch_all(json_str) ==
    IF json_str.t = "none" THEN Return(PyList(<<>>))
    ELSE IF json_str.t = "list" THEN Return(json_str)
    ELSE
        LET data == json_loads(json_str) IN
        IF data.exc = "JSONDecodeError" THEN Return(PyList(<<>>))
        ELSE IF data.exc # "" THEN Raise(data.exc)
        ELSE IF data.val.t = "list" THEN Return(data.val)
        ELSE Return(PyList(<<>>))

\* the function returning whatever json.loads parsed, array or not
parse_json_array_any_json(json_str) ==
    IF json_str.t = "none" THEN Return(PyList(<<>>))
    ELSE IF json_str.t = "list" THEN Return(json_str)
    ELSE
        LET data == json_loads(json_str) IN
        IF data.exc # "" THEN Return(PyList(<<>>))
        ELSE Return(data.val)

parse_json_array(json_str) ==
    IF json_str.t = "none" THEN Return(PyList(<<>>))
    ELSE IF json_str.t = "list" THEN Return(json_str)
    ELSE
        LET data == json_loads(json_str) IN
        IF data.exc = "JSONDecodeError" THEN Return(PyList(<<>>))
        ELSE IF data.exc # "" THEN Return(PyList(<<>>))
        ELSE IF data.val.t = "list" THEN Return(data.val)
        ELSE Return(PyList(<<>>))

(***************************************************************************)
(* Floats, as exact rationals <<n, d>> with d > 0, in lowest terms.        *)
(***************************************************************************)
RECURSIVE GCD(_, _)
GCD(a, b) == IF b = 0 THEN a ELSE GCD(b, a % b)
LCM(a, b) == (a \div GCD(a, b)) * b
Abs(n) == IF n < 0 THEN 0 - n ELSE n
Max(a, b) == IF a >= b THEN a ELSE b

Rat(n, d) == LET g == GCD(Abs(n), d) IN <<n \div g, d \div g>>
Zero == <<0, 1>>
One == <<1, 1>>
RatAdd(a, b) ==
    LET l == LCM(a[2], b[2]) IN Rat(a[1] * (l \div a[2]) + b[1] * (l \div b[2]), l)
RatSub(a, b) == RatAdd(a, <<0 - b[1], b[2]>>)
RatMul(a, b) ==
    LET g == GCD(Abs(a[1]), b[2])
        h == GCD(Abs(b[1]), a[2])
    IN  Rat((a[1] \div g) * (b[1] \div h), (a[2] \div h) * (b[2] \div g))
RatLeq(a, b) ==
    LET l == LCM(a[2], b[2]) IN a[1] * (l \div a[2]) <= b[1] * (l \div b[2])
RatLt(a, b) == ~RatLeq(b, a)
RatMin(a, b) == IF RatLeq(a, b) THEN a ELSE b
RatMax(a, b) == IF RatLeq(b, a) THEN a ELSE b

\* a list built by a comprehension: its elements are computed once, in order
List(f) == f \o <<>>

RECURSIVE SumInts(_, _)
SumInts(s, i) == IF i > Len(s) THEN 0 ELSE s[i] + SumInts(s, i + 1)

RECURSIVE SumRats(_, _)
SumRats(s, i) == IF i > Len(s) THEN Zero ELSE RatAdd(s[i], SumRats(s, i + 1))

\* statistics.mean of a non-empty sequence of whole numbers
MeanInts(s) == Rat(SumInts(s, 1), Len(s))

RECURSIVE Flatten(_, _)
Flatten(seqs, i) == IF i > Len(seqs) THEN <<>> ELSE seqs[i] \o Flatten(seqs, i + 1)

\* list.sort() of whole numbers
RECURSIVE InsertInt(_, _, _)
InsertInt(s, x, i) ==
    IF i > Len(s) \/ x < s[i] THEN SubSeq(s, 1, i - 1) \o <<x>> \o SubSeq(s, i, Len(s))
    ELSE InsertInt(s, x, i + 1)

RECURSIVE SortInts(_, _)
SortInts(s, i) == IF i > Len(s) THEN <<>> ELSE InsertInt(SortInts(s, i + 1), s[i], 1)

\* how many of a sequence of tests came out true
Count(flags) == Cardinality({i \in DOMAIN flags : flags[i]})

(***************************************************************************)
(* Python floats in the weighted sum, as IEEE 754 binary64 values.  A      *)
(* natural number is its little-endian sequence of 14-bit limbs; a float   *)
(* x > 0 is [m, e] with x = m * 2^e and m a four-limb number of exactly 53 *)
(* bits, and 0.0 is the record FloatZero, so that equal floats are equal   *)
(* records.  Every operation rounds its exact result to 53 significant     *)
(* bits, ties to even.  (No value here is negative, subnormal or beyond    *)
(* the exponent range.)                                                    *)
(***************************************************************************)
Limb == 128 * 128

\* 2^k for k in 0..14
PowerOfTwo(k) == <<1, 2, 4, 8, 16, 32, 64, 128, 256, 512, 1024, 2048, 4096, 8192, 16384>>[k + 1]

RECURSIVE BigTrim(_)
BigTrim(a) ==
    IF a # <<>> /\ a[Len(a)] = 0 THEN BigTrim(SubSeq(a, 1, Len(a) - 1)) ELSE a

RECURSIVE BigOfInt(_)
BigOfInt(n) == IF n = 0 THEN <<>> ELSE <<n % Limb>> \o BigOfInt(n \div Limb)

\* the number whose limbs, before the carries are propagated, are columns
RECURSIVE BigCarry(_, _, _)
BigCarry(columns, i, carry) ==
    IF i > Len(columns) THEN BigOfInt(carry)
    ELSE LET s == columns[i] + carry
         IN  <<s % Limb>> \o BigCarry(columns, i + 1, s \div Limb)

BigLimb(a, i) == IF i >= 1 /\ i <= Len(a) THEN a[i] ELSE 0

\* the 14 bits of a from bit position `from` on (positions below 0 hold 0)
BigWindow(a, from) ==
    (BigLimb(a, from \div 14 + 1) \div PowerOfTwo(from % 14))
        + (BigLimb(a, from \div 14 + 2) % PowerOfTwo(from % 14)) * PowerOfTwo(14 - (from % 14))

\* a mod 2^bits = 0
BigLowZero(a, bits) ==
    /\ \A i \in 1..(bits \div 14) : BigLimb(a, i) = 0
    /\ BigLimb(a, bits \div 14 + 1) % PowerOfTwo(bits % 14) = 0

\* bit number `bit` of a
BigBit(a, bit) == (BigLimb(a, bit \div 14 + 1) \div PowerOfTwo(bit % 14)) % 2

RECURSIVE BitLen(_)
BitLen(n) == IF n = 0 THEN 0 ELSE 1 + BitLen(n \div 2)
BigBitLen(a) == IF a = <<>> THEN 0 ELSE 14 * (Len(a) - 1) + BitLen(a[Len(a)])

\* <<a div d, a mod d>> for a whole number 0 < d <= 2^14, from the top limb down
RECURSIVE BigDivFrom(_, _, _, _)
BigDivFrom(a, d, i, rem) ==
    IF i = 0 THEN <<<<>>, rem>>
    ELSE LET cur == rem * Limb + a[i]
             rest == BigDivFrom(a, d, i - 1, cur % d)
         IN  <<rest[1] \o <<cur \div d>>, rest[2]>>

\* 70 low zero bits
BigZeros5 == <<0, 0, 0, 0, 0>>

FloatZero == [m |-> <<0, 0, 0, 0>>, e |-> 0]

\* m + 1 for a 53-bit m, as a float with exponent e
FloatAbove(m, e) ==
    IF m[1] + 1 < Limb THEN [m |-> <<m[1] + 1, m[2], m[3], m[4]>>, e |-> e]
    ELSE IF m[2] + 1 < Limb THEN [m |-> <<0, m[2] + 1, m[3], m[4]>>, e |-> e]
    ELSE IF m[3] + 1 < Limb THEN [m |-> <<0, 0, m[3] + 1, m[4]>>, e |-> e]
    ELSE IF m[4] + 1 < 2048 THEN [m |-> <<0, 0, 0, m[4] + 1>>, e |-> e]
    ELSE [m |-> <<0, 0, 0, 1024>>, e |-> e + 1]

\* round-to-nearest, ties-to-even, of n * 2^e + (a positive rest below 2^e,
\* if inexact), where excess is the number of bits of n beyond 53
FloatRoundBy(n, e, inexact, excess) ==
    LET kept == List([i \in 1..4 |-> BigWindow(n, excess + 14 * (i - 1))])
        up == /\ excess > 0
              /\ BigBit(n, excess - 1) = 1
              /\ (inexact \/ ~BigLowZero(n, excess - 1) \/ kept[1] % 2 = 1)
    IN  IF up THEN FloatAbove(kept, e + excess) ELSE [m |-> kept, e |-> e + excess]
FloatRoundTrimmed(n, e, inexact) ==
    IF n = <<>> THEN FloatZero ELSE FloatRoundBy(n, e, inexact, BigBitLen(n) - 53)
FloatRound(n, e, inexact) == FloatRoundTrimmed(BigTrim(n), e, inexact)

FloatOfInt(n) == FloatRound(BigOfInt(n), 0, FALSE)
FloatOne == FloatOfInt(1)

\* x + y for x.e >= y.e: y is below half a unit in the last place of x, or
\* the two are added exactly at the exponent of y
FloatSum(x, y, shift) ==
    IF y = FloatZero \/ (x # FloatZero /\ shift >= 54) THEN x
    ELSE FloatRound(BigCarry(List([i \in 1..8 |-> BigWindow(x.m, 14 * (i - 1) - shift)
                                                   + BigLimb(y.m, i)]), 1, 0), y.e, FALSE)
FloatAdd(x, y) ==
    IF x = FloatZero THEN y
    ELSE IF x.e >= y.e THEN FloatSum(x, y, x.e - y.e) ELSE FloatSum(y, x, y.e - x.e)

\* x * y
BigColumn(a, b, k) ==
    BigLimb(a, 1) * BigLimb(b, k) + BigLimb(a, 2) * BigLimb(b, k - 1)
        + BigLimb(a, 3) * BigLimb(b, k - 2) + BigLimb(a, 4) * BigLimb(b, k - 3)
FloatMul(x, y) ==
    IF x = FloatZero \/ y = FloatZero THEN FloatZero
    ELSE FloatRound(BigCarry(List([k \in 1..7 |-> BigColumn(x.m, y.m, k)]), 1, 0),
                    x.e + y.e, FALSE)

\* x / d for a whole number 0 < d <= 2^14: the quotient is carried 70 bits
\* beyond the mantissa, and what is left over makes the result inexact
FloatQuotient(qr, e) == FloatRound(qr[1], e, qr[2] # 0)
FloatDiv(x, d) ==
    IF x = FloatZero THEN x
    ELSE FloatQuotient(BigDivFrom(BigZeros5 \o x.m, d, 9, 0), x.e - 70)

\* the float nearest to the rational n / d
FloatOfRat(r) == FloatDiv(FloatOfInt(r[1]), r[2])

\* x <= y
FloatLeq(x, y) ==
    IF x = FloatZero THEN TRUE
    ELSE IF y = FloatZero THEN FALSE
    ELSE IF x.e # y.e THEN x.e < y.e
    ELSE IF x.m[4] # y.m[4] THEN x.m[4] < y.m[4]
    ELSE IF x.m[3] # y.m[3] THEN x.m[3] < y.m[3]
    ELSE IF x.m[2] # y.m[2] THEN x.m[2] < y.m[2]
    ELSE x.m[1] <= y.m[1]
FloatLt(x, y) == ~FloatLeq(y, x)
FloatMin(x, y) == IF FloatLeq(x, y) THEN x ELSE y

RECURSIVE SumFloats(_, _, _)
SumFloats(s, i, acc) == IF i > Len(s) THEN acc ELSE SumFloats(s, i + 1, FloatAdd(acc, s[i]))

(***************************************************************************)
(* Text.  A str is its sequence of words; str.lower() lowers each word;    *)
(* "term in text" holds when the words of the term occur in a row.  A word *)
(* that holds a one-word term inside it is listed in Embedded.             *)
(***************************************************************************)
Lower(w) ==
    CASE w = "Critical" -> "critical"
      [] w = "Complete" -> "complete"
      [] w = "Bug" -> "bug"
      [] OTHER -> w

Embedded ==
    {<<"completed", "complete">>, <<"incomplete", "complete">>,
     <<"keynote", "key">>, <<"debugging", "bug">>, <<"unresolved", "resolved">>}

WordHas(w, t) == Lower(w) = t \/ <<Lower(w), t>> \in Embedded

TermIn(term, text) ==
    \E i \in 1..(Len(text) - Len(term) + 1) :
        IF Len(term) = 1 THEN WordHas(text[i], term[1])
        ELSE \A j \in 1..Len(term) : Lower(text[i + j - 1]) = term[j]

AnyTermIn(terms, text) == \E t \in terms : TermIn(t, text)
TermsIn(terms, text) == Cardinality({t \in terms : TermIn(t, text)})

\* the digit characters of a word, and whether it holds a percent sign
WordDigits(w) ==
    CASE w = "80%" -> <<8, 0>>
      [] w = "50%" -> <<5, 0>>
      [] w = "100%" -> <<1, 0, 0>>
      [] w = "0%" -> <<0>>
      [] w = "2" -> <<2>>
      [] w = "5" -> <<5>>
      [] w = "80" -> <<8, 0>>
      [] OTHER -> <<>>

WordHasPercent(w) == w \in {"80%", "50%", "100%", "0%", "%"}

\* ''.join(filter(str.isdigit, project))
RECURSIVE DigitsOf(_, _)
DigitsOf(text, i) ==
    IF i > Len(text) THEN <<>> ELSE WordDigits(text[i]) \o DigitsOf(text, i + 1)

\* int(digits), for a non-empty run of digits
RECURSIVE IntOf(_, _)
IntOf(digits, n) == IF n = 0 THEN 0 ELSE 10 * IntOf(digits, n - 1) + digits[n]

(***************************************************************************)
(* The vocabularies of calculate_metrics.                                  *)
(***************************************************************************)
ArchitectureTerms == {<<"architecture">>, <<"design">>, <<"implement">>, <<"optimize">>}
DifficultyTerms == {<<"complex">>, <<"challenging">>, <<"difficult">>}
AchievedTerms == {<<"complete">>, <<"achieved">>}
MilestoneTerms == {<<"milestone">>, <<"major">>, <<"key">>, <<"critical">>}
ImportanceTerms == {<<"critical">>, <<"key">>, <<"major">>, <<"strategic">>}
BusinessTerms == {<<"customer">>, <<"revenue">>, <<"cost-saving">>}
CollaborationTerms ==
    {<<"collaborated">>, <<"worked", "with">>, <<"helped">>, <<"supported">>, <<"paired">>}
SharingTerms == {<<"documented">>, <<"trained">>, <<"presented">>, <<"shared">>, <<"mentored">>}
TeamHelpTerms ==
    {<<"helped", "team">>, <<"supported", "colleague">>, <<"assisted">>, <<"mentored">>}
InnovationTerms ==
    {<<"new", "solution">>, <<"innovative">>, <<"improved">>, <<"optimized">>, <<"automated">>}
QualityTerms == {<<"bug">>, <<"issue">>, <<"error">>}
ResolutionTerms == {<<"resolved">>, <<"fixed">>, <<"solved">>, <<"addressed">>}

(***************************************************************************)
(* Reading a structured field the way calculate_metrics does:              *)
(*     if update.field: items = json.loads(update.field)                   *)
(* followed by a loop over items that calls item.lower() on each.  The     *)
(* outcome's val is the sequence of the items' texts.                      *)
(***************************************************************************)
Truthy(x) ==
    CASE x.t = "none" -> FALSE
      [] x.t = "bool" -> x.v = <<"true">>
      [] x.t = "int" -> x.v # <<"0">>
      [] OTHER -> x.v # <<>>

\* iter(x): the elements of a list, the characters of a str (here its lexemes),
\* the keys of a dict; TypeError for None, a number, a boolean
Iterate(x) ==
    IF x.t = "list" THEN Return(x.v)
    ELSE IF x.t = "str" THEN Return([i \in 1..Len(x.v) |-> PyStr(<<x.v[i]>>)])
    ELSE IF x.t = "dict" THEN Return([i \in 1..(Len(x.v) \div 2) |-> x.v[2 * i - 1]])
    ELSE Raise("TypeError")

\* item.lower() raises AttributeError on an item that is no str; where the
\* items first pass through '"%" in item' (project_progress), an item that is
\* no container raises TypeError there
ItemTexts(items, percent_tested) ==
    IF percent_tested /\ \E i \in 1..Len(items) : items[i].t \in {"none", "int", "bool"}
        THEN Raise("TypeError")
    ELSE IF \E i \in 1..Len(items) : items[i].t # "str" THEN Raise("AttributeError")
    ELSE Return(List([i \in 1..Len(items) |-> items[i].v]))

Iterated(items, percent_tested) ==
    IF items.exc # "" THEN items ELSE ItemTexts(items.val, percent_tested)

Loaded(data, percent_tested) ==
    IF data.exc # "" THEN data ELSE Iterated(Iterate(data.val), percent_tested)

FieldItems(raw, percent_tested) ==
    IF ~Truthy(raw) THEN Return(<<>>) ELSE Loaded(json_loads(raw), percent_tested)

(***************************************************************************)
(* calculate_metrics(updates, start_date), run when datetime.now() = clock.*)
(* An update's productivity_score is <<>> (None) or <<p>>, p tenths.       *)
(***************************************************************************)
PerformanceMetrics(productivity, tasks, goals, completion, frequency, collaboration, impact, consistency, innovation, quality, resolved, complexity, milestones, sharing, contributions) ==
    [productivity_score |-> productivity,
     completed_tasks_count |-> tasks,
     goals_achieved |-> goals,
     project_completion_rate |-> completion,
     update_frequency |-> frequency,
     collaboration_score |-> collaboration,
     impact_score |-> impact,
     consistency_score |-> consistency,
     innovation_score |-> innovation,
     quality_score |-> quality,
     blockers_resolved |-> resolved,
     avg_task_complexity |-> complexity,
     milestone_completion_rate |-> milestones,
     knowledge_sharing |-> sharing,
     team_contributions |-> contributions]

\* the metrics with consistency_score 1.0, as for a single update
EmptyMetricsConsistent ==
    PerformanceMetrics(Zero, 0, 0, Zero, Zero, Zero, Zero, One, Zero, Zero, 0, Zero,
                       Zero, 0, 0)

\* lines 22-38: the result for no updates
EmptyMetrics ==
    PerformanceMetrics(Zero, 0, 0, Zero, Zero, Zero, Zero, Zero, Zero, Zero, 0, Zero,
                       Zero, 0, 0)

\* lines 53-59: the weight of one completed task
TaskComplexity(task) ==
    RatAdd(One,
      RatAdd(IF AnyTermIn(ArchitectureTerms, task) THEN <<1, 2>> ELSE Zero,
        RatAdd(IF AnyTermIn(DifficultyTerms, task) THEN <<3, 10>> ELSE Zero,
               IF Len(task) > 10 THEN <<1, 5>> ELSE Zero)))

\* lines 91-94: what one project string adds to the impact score
ProjectImpact(project) ==
    RatAdd(IF AnyTermIn(ImportanceTerms, project) THEN <<3, 10>> ELSE Zero,
           IF AnyTermIn(BusinessTerms, project) THEN <<1, 5>> ELSE Zero)

IsAchieved(goal) == AnyTermIn(AchievedTerms, goal)
\* every goal taken for a milestone
IsMilestoneAlways(goal) == TRUE
IsMilestone(goal) == AnyTermIn(MilestoneTerms, goal)
HasPercent(project) == \E i \in 1..Len(project) : WordHasPercent(project[i])
IsQualityIssue(blocker) == AnyTermIn(QualityTerms, blocker)

\* the rates of all the project strings that hold digits, above 100 or not
CompletionRatesUncapped(projects) ==
    LET kept == SelectSeq(projects, LAMBDA project : DigitsOf(project, 1) # <<>>)
    IN  [i \in 1..Len(kept) |-> IntOf(DigitsOf(kept[i], 1), Len(DigitsOf(kept[i], 1)))]

\* lines 99-106: the rates read from the project strings that hold a percent
\* sign; int('') raises ValueError, and the string is passed over
CompletionRates(projects) ==
    LET rate(project) == IntOf(DigitsOf(project, 1), Len(DigitsOf(project, 1)))
        kept == SelectSeq(projects,
                    LAMBDA project : /\ DigitsOf(project, 1) # <<>>
                                     /\ 0 <= rate(project)
                                     /\ rate(project) <= 100)
    IN  [i \in 1..Len(kept) |-> rate(kept[i])]

\* the score with the gaps taken in the order the updates arrive in
ConsistencyScoreUnsorted(upds) ==
    LET update_dates == [i \in 1..Len(upds) |-> upds[i].timestamp]
        gaps == [i \in 1..(Len(update_dates) - 1) |-> update_dates[i + 1] - update_dates[i]]
        raw == RatSub(One, IF gaps # <<>> THEN RatMul(MeanInts(gaps), <<1, 7>>) ELSE Zero)
    IN  RatMax(Zero, RatMin(One, raw))

\* lines 116-123
ConsistencyScore(upds) ==
    LET update_dates == SortInts([i \in 1..Len(upds) |-> upds[i].timestamp], 1)
        gaps == [i \in 1..(Len(update_dates) - 1) |-> update_dates[i + 1] - update_dates[i]]
        raw == RatSub(One, IF gaps # <<>> THEN RatMul(MeanInts(gaps), <<1, 7>>) ELSE Zero)
    IN  RatMax(Zero, RatMin(One, raw))

\* the items of one structured field over all the updates, in order; the
\* first update whose field cannot be read ends the call
FieldOfAll(upds, field, percent_tested) ==
    LET outcomes == List([i \in 1..Len(upds) |-> FieldItems(upds[i][field], percent_tested)])
        failed == {i \in 1..Len(upds) : outcomes[i].exc # ""}
    IN  IF failed # {} THEN Raise(outcomes[CHOOSE i \in failed : \A k \in failed : i <= k].exc)
        ELSE Return(Flatten([i \in 1..Len(upds) |-> outcomes[i].val], 1))

\* lines 40-184, given what reading the four fields came to
MetricsOf(upds, start_date, clock, tasks, goals_read, projects_read, blockers) ==
    IF tasks.exc # "" THEN tasks
    ELSE IF goals_read.exc # "" THEN goals_read
    ELSE IF projects_read.exc # "" THEN projects_read
    ELSE IF blockers.exc # "" THEN blockers
    ELSE
        LET n == Len(upds)
            \* lines 41-42
            scored == SelectSeq(upds, LAMBDA u : u.productivity_score # <<>>)
            productivity_scores == [i \in 1..Len(scored) |-> scored[i].productivity_score[1]]
            avg_productivity ==
                IF productivity_scores # <<>>
                    THEN Rat(SumInts(productivity_scores, 1), 10 * Len(productivity_scores))
                    ELSE Zero
            \* lines 45-63
            completed_tasks_list == tasks.val
            completed_tasks == Len(completed_tasks_list)
            total_complexity ==
                SumRats([i \in 1..completed_tasks |-> TaskComplexity(completed_tasks_list[i])], 1)
            avg_task_complexity ==
                IF completed_tasks > 0 THEN RatMul(total_complexity, <<1, completed_tasks>>)
                ELSE Zero
            \* lines 66-80
            goals == goals_read.val
            goals_achieved == Count([i \in DOMAIN goals |-> IsAchieved(goals[i])])
            milestones_total == Count([i \in DOMAIN goals |-> IsMilestone(goals[i])])
            milestones_completed ==
                Count([i \in DOMAIN goals |-> IsMilestone(goals[i]) /\ IsAchieved(goals[i])])
            milestone_completion_rate ==
                IF milestones_total > 0 THEN Rat(milestones_completed, milestones_total)
                ELSE Zero
            \* lines 83-108
            projects == projects_read.val
            all_projects == SelectSeq(projects, HasPercent)
            impact_score ==
                RatMin(One, SumRats([i \in 1..Len(projects) |-> ProjectImpact(projects[i])], 1))
            completion_rates == CompletionRates(all_projects)
            avg_completion_rate ==
                IF completion_rates # <<>> THEN RatMul(MeanInts(completion_rates), <<1, 100>>)
                ELSE Zero
            \* lines 111-113
            days_in_period == clock - start_date
            weeks_in_period == RatMax(One, Rat(days_in_period, 7))
            update_frequency == RatMul(<<n, 1>>, <<weeks_in_period[2], weeks_in_period[1]>>)
            \* lines 126-141
            collaboration_mentions ==
                SumInts([i \in 1..n |-> TermsIn(CollaborationTerms, upds[i].update_text)], 1)
            knowledge_sharing_count ==
                SumInts([i \in 1..n |-> TermsIn(SharingTerms, upds[i].update_text)], 1)
            team_help_count ==
                SumInts([i \in 1..n |-> TermsIn(TeamHelpTerms, upds[i].update_text)], 1)
            collaboration_score == RatMin(One, Rat(collaboration_mentions, n * 2))
            \* lines 144-150
            innovation_mentions ==
                Count([i \in 1..n |-> AnyTermIn(InnovationTerms, upds[i].update_text)])
            innovation_score == RatMin(One, Rat(innovation_mentions, n))
            \* lines 153-159
            quality_issues ==
                Count([i \in DOMAIN blockers.val |-> IsQualityIssue(blockers.val[i])])
            quality_score ==
                RatSub(One, RatMin(One, Rat(quality_issues,
                                            IF completed_tasks > 0 THEN completed_tasks ELSE 1)))
            \* lines 162-166
            resolved_blockers ==
                Count([i \in 1..n |-> AnyTermIn(ResolutionTerms, upds[i].update_text)])
        IN  Return(PerformanceMetrics(avg_productivity, completed_tasks, goals_achieved,
                    avg_completion_rate, update_frequency, collaboration_score, impact_score,
                    ConsistencyScore(upds), innovation_score, quality_score,
                    resolved_blockers, avg_task_complexity, milestone_completion_rate,
                    knowledge_sharing_count, team_help_count))

calculate_metrics(upds, start_date, clock) ==
    IF upds = <<>> THEN Return(EmptyMetrics)
    ELSE MetricsOf(upds, start_date, clock,
                   FieldOfAll(upds, "completed_tasks", FALSE),
                   FieldOfAll(upds, "goals_status", FALSE),
                   FieldOfAll(upds, "project_progress", TRUE),
                   FieldOfAll(upds, "blockers", FALSE))

(***************************************************************************)
(* calculate_overall_score                                                 *)
(***************************************************************************)
\* lines 188-194: the weights, in the order the dict holds them
Weights == <<FloatOfRat(<<3, 10>>), FloatOfRat(<<1, 5>>), FloatOfRat(<<1, 5>>),
             FloatOfRat(<<1, 5>>), FloatOfRat(<<1, 10>>)>>

\* lines 210-211: sum() adds the products to 0 from left to right
WeightedSum(normalized_metrics) ==
    SumFloats([i \in 1..5 |-> FloatMul(normalized_metrics[i], Weights[i])], 1, FloatZero)

\* each metric is held exactly and enters the sum as the float nearest to it
calculate_overall_score(metrics) ==
    LET max_tasks == 20
        max_goals == 10
        max_frequency == 5
        productivity_score == FloatOfRat(metrics.productivity_score)
        completed_tasks_count ==
            FloatMin(FloatOne, FloatDiv(FloatOfInt(metrics.completed_tasks_count), max_tasks))
        goals_achieved ==
            FloatMin(FloatOne, FloatDiv(FloatOfInt(metrics.goals_achieved), max_goals))
        project_completion_rate == FloatOfRat(metrics.project_completion_rate)
        update_frequency ==
            FloatMin(FloatOne, FloatDiv(FloatOfRat(metrics.update_frequency), max_frequency))
    IN  WeightedSum(<<productivity_score, completed_tasks_count, goals_achieved,
                      project_completion_rate, update_frequency>>)

(***************************************************************************)
(* Requests.  A handler's outcome is Return(body), or the HTTPException it *)
(* raised; Deliver is what the framework makes of it for the caller.       *)
(***************************************************************************)
HTTPException(code) == [exc |-> "HTTPException", status_code |-> code, val |-> PyNone]

\* an HTTPException goes out with its own status; any other exception reaches
\* general_exception_handler
Deliver(op, args, outcome) ==
    [op |-> op, args |-> args,
     status |-> IF outcome.exc = "" THEN 200
                ELSE IF outcome.exc = "HTTPException" THEN outcome.status_code
                ELSE 500,
     body |-> outcome.val]

\* db.query(models.Update).join(models.TeamMember): the updates of known members
MemberOf(members, update) ==
    CHOOSE m \in {members[i] : i \in 1..Len(members)} : m.id = update.team_member_id

Joined(members, upds) ==
    SelectSeq(upds, LAMBDA u : \E i \in 1..Len(members) : members[i].id = u.team_member_id)

Reverse(s) == [i \in 1..Len(s) |-> s[Len(s) + 1 - i]]

(***************************************************************************)
(* get_employee_ratings                                                    *)
(***************************************************************************)
period_days == ("30d" :> 30) @@ ("90d" :> 90) @@ ("180d" :> 180) @@ ("365d" :> 365)

\* a stable ascending sort of (member, metrics, overall_score) triples by score
RECURSIVE InsertByScore(_, _, _)
InsertByScore(s, x, i) ==
    IF i > Len(s) \/ FloatLt(x.overall_score, s[i].overall_score)
        THEN SubSeq(s, 1, i - 1) \o <<x>> \o SubSeq(s, i, Len(s))
    ELSE InsertByScore(s, x, i + 1)

RECURSIVE SortByScore(_, _)
SortByScore(s, n) ==
    IF n = 0 THEN <<>> ELSE InsertByScore(SortByScore(s, n - 1), s[n], 1)

\* an ascending sort, then reversed: descending, with equal scores in reverse
SortAscendingThenReverse(employee_scores) ==
    Reverse(SortByScore(employee_scores, Len(employee_scores)))

\* employee_scores.sort(key=lambda x: x[2], reverse=True): list.sort keeps the
\* sort stable under reverse=True by reversing the list before and after
SortDescending(employee_scores) ==
    Reverse(SortByScore(Reverse(employee_scores), Len(employee_scores)))

\* both thresholds taken from the top tenth
StrongThresholdAsTop(total_employees) == Max(1, total_employees \div 10)

\* max(1, int(total_employees * 0.1)) and max(1, int(total_employees * 0.3));
\* the float products truncate to these quotients for every total below 100000
TopThreshold(total_employees) == Max(1, total_employees \div 10)
StrongThreshold(total_employees) == Max(1, (3 * total_employees) \div 10)

PerformanceTier(rank, top_threshold, strong_threshold) ==
    IF rank <= top_threshold THEN "Top 10%"
    ELSE IF rank <= strong_threshold THEN "Next 20%"
    ELSE "Rest 70%"

\* lines 245-252: the (member, metrics, overall_score) triples, unless a call
\* of calculate_metrics raised
\* line 250, for each of a list of metrics: equal metrics have equal scores,
\* and each distinct metrics record is scored once
OverallScores(metrics) ==
    [m \in {metrics[i] : i \in DOMAIN metrics} |-> calculate_overall_score(m)] @@ <<>>

\* line 252
ScoredRows(active, metricsOf, score) ==
    List([i \in 1..Len(active) |->
            [member |-> active[i],
             metrics |-> metricsOf[i].val,
             overall_score |-> score[metricsOf[i].val]]])

Scored(active, metricsOf) ==
    IF \E i \in 1..Len(active) : metricsOf[i].exc # ""
        THEN Raise(metricsOf[CHOOSE i \in 1..Len(active) :
                                /\ metricsOf[i].exc # ""
                                /\ \A k \in 1..(i - 1) : metricsOf[k].exc = ""].exc)
    ELSE Return(ScoredRows(active, metricsOf,
                           OverallScores(List([i \in 1..Len(active) |-> metricsOf[i].val]))))

\* lines 240-252: the members with an update in the window, scored, in the
\* order the member directory yields them
EmployeeScores(members, upds, start_date, clock) ==
    LET inWindow(member) ==
            SelectSeq(upds, LAMBDA u : /\ u.team_member_id = member.id
                                       /\ u.timestamp >= start_date)
        active == SelectSeq(members, LAMBDA m : inWindow(m) # <<>>)
    IN  Scored(active,
               List([i \in 1..Len(active) |->
                        calculate_metrics(inWindow(active[i]), start_date, clock)]))

\* lines 284-289: the list each ranked employee is appended to
TopPerformers(performance, top_threshold) ==
    SelectSeq(performance, LAMBDA e : e.ranking <= top_threshold)

\* the second branch as an "if" of its own, not an "elif"
StrongPerformersNoElse(performance, top_threshold, strong_threshold) ==
    SelectSeq(performance, LAMBDA e : e.ranking <= strong_threshold)

StrongPerformers(performance, top_threshold, strong_threshold) ==
    SelectSeq(performance, LAMBDA e : /\ ~(e.ranking <= top_threshold)
                                      /\ e.ranking <= strong_threshold)

OtherPerformers(performance, top_threshold, strong_threshold) ==
    SelectSeq(performance, LAMBDA e : /\ ~(e.ranking <= top_threshold)
                                      /\ ~(e.ranking <= strong_threshold))

\* lines 254-291: the sorted scores ranked, labelled and split into the lists
RatingsResponse(days, employee_scores) ==
    LET total_employees == Len(employee_scores)
        top_threshold == TopThreshold(total_employees)
        strong_threshold == StrongThreshold(total_employees)
        performance == List([rank \in 1..total_employees |->
            [name |-> employee_scores[rank].member.name,
             role |-> employee_scores[rank].member.role,
             department |-> employee_scores[rank].member.department,
             metrics |-> employee_scores[rank].metrics,
             ranking |-> rank,
             performance_tier |-> PerformanceTier(rank, top_threshold, strong_threshold)]])
    IN  [top_performers |-> TopPerformers(performance, top_threshold),
         strong_performers |-> StrongPerformers(performance, top_threshold, strong_threshold),
         other_performers |-> OtherPerformers(performance, top_threshold, strong_threshold),
         total_employees |-> total_employees,
         evaluation_period |-> <<"Last", ToString(days), "days">>]

Ranked(days, scored) ==
    IF scored.exc # "" THEN scored
    ELSE Return(RatingsResponse(days, SortDescending(scored.val)))

\* lines 222-291: the body of the try statement
RatingsBody(period, members, upds, clock) ==
    IF period \notin DOMAIN period_days THEN HTTPException(400)
    ELSE Ranked(period_days[period],
                EmployeeScores(members, upds, clock - period_days[period], clock))

\* "except Exception as e: raise HTTPException(status_code=500, ...)": catches
\* whatever the body raised, an HTTPException the body raised itself included
Caught(body) == IF body.exc = "" THEN body ELSE HTTPException(500)

\* lines 215-296
get_employee_ratings(period, members, upds, clock) ==
    Caught(RatingsBody(period, members, upds, clock))

(***************************************************************************)
(* get_productivity_trends                                                 *)
(***************************************************************************)
time_range_days == ("week" :> 7) @@ ("month" :> 30) @@ ("quarter" :> 90) @@ ("year" :> 365)

\* func.avg over the scores that are not NULL, then float(productivity or 0)
AvgProductivity(upds) ==
    LET scored == SelectSeq(upds, LAMBDA u : u.productivity_score # <<>>) IN
    IF scored = <<>> THEN Zero
    ELSE Rat(SumInts([i \in 1..Len(scored) |-> scored[i].productivity_score[1]], 1),
             10 * Len(scored))

\* lines 72-95: one row per (date, department) that has an update in the range
TrendRows(department, members, upds, start_date, end_date) ==
    LET rows == SelectSeq(Joined(members, upds),
                    LAMBDA u : /\ department # <<"all">>
                                    => MemberOf(members, u).department = department
                               /\ u.timestamp >= start_date
                               /\ u.timestamp <= end_date)
        keys == {<<rows[i].timestamp, MemberOf(members, rows[i]).department>> :
                    i \in 1..Len(rows)}
        group(k) == SelectSeq(rows, LAMBDA u : /\ u.timestamp = k[1]
                                               /\ MemberOf(members, u).department = k[2])
    IN  {[date |-> k[1], productivity |-> AvgProductivity(group(k)),
          updates |-> Len(group(k)), department |-> k[2]] : k \in keys}

\* order_by(date asc): the rows in an order of ascending date; the query leaves
\* the order of the rows of one date open
TrendResults(rows) ==
    {s \in [1..Cardinality(rows) -> rows] :
        /\ \A i, j \in 1..Cardinality(rows) : i # j => s[i] # s[j]
        /\ \A i, j \in 1..Cardinality(rows) : i < j => s[i].date <= s[j].date}

\* lines 55-113: the body of the try statement, for one ordering of the rows
TrendsBodies(timeRange, department, members, upds, clock) ==
    IF timeRange \notin DOMAIN time_range_days THEN {HTTPException(400)}
    ELSE {Return(results) :
            results \in TrendResults(TrendRows(department, members, upds,
                                        clock - time_range_days[timeRange], clock))}

\* lines 115-118
get_productivity_trends(timeRange, department, members, upds, clock) ==
    {Caught(body) : body \in TrendsBodies(timeRange, department, members, upds, clock)}

(***************************************************************************)
(* get_analytics_overview                                                  *)
(***************************************************************************)
overview_period_days == ("7d" :> 7) @@ ("30d" :> 30) @@ ("90d" :> 90) @@ ("180d" :> 180)

\* lines 295-307: if update.field: items.extend(parse_json_array(update.field))
OverviewItems(upds, field) ==
    Flatten([i \in 1..Len(upds) |->
                IF Truthy(upds[i][field]) THEN parse_json_array(upds[i][field]).val.v
                ELSE <<>>], 1)

\* set(items) raises TypeError when an item is a list or a dict
Hashable(x) == x.t \notin {"list", "dict"}
SetOf(items) ==
    IF \E i \in 1..Len(items) : ~Hashable(items[i]) THEN Raise("TypeError")
    ELSE Return({items[i] : i \in 1..Len(items)})

\* lines 252-340: the body of the try statement
OverviewBody(period, members, upds, clock) ==
    IF period \notin DOMAIN overview_period_days THEN HTTPException(400)
    ELSE
        LET start_date == clock - overview_period_days[period]
            rows == SelectSeq(Joined(members, upds), LAMBDA u : u.timestamp >= start_date)
        IN
        IF rows = <<>> THEN
            Return([team_productivity |-> Zero, total_updates |-> 0,
                    active_projects |-> {}, completed_tasks |-> {},
                    common_blockers |-> {}, department_stats |-> <<>>])
        ELSE
            LET departments == {MemberOf(members, rows[i]).department : i \in 1..Len(rows)}
                ofDept(d) == SelectSeq(rows, LAMBDA u : MemberOf(members, u).department = d)
                department_stats == [d \in departments |->
                    [productivity |-> AvgProductivity(ofDept(d)),
                     updates |-> Len(ofDept(d)),
                     active_members |->
                        Cardinality({MemberOf(members, ofDept(d)[i]).name :
                                        i \in 1..Len(ofDept(d))})]]
                active_projects == SetOf(OverviewItems(rows, "project_progress"))
                completed_tasks == SetOf(OverviewItems(rows, "completed_tasks"))
                common_blockers == SetOf(OverviewItems(rows, "blockers"))
            IN
            IF active_projects.exc # "" THEN Raise(active_projects.exc)
            ELSE IF completed_tasks.exc # "" THEN Raise(completed_tasks.exc)
            ELSE IF common_blockers.exc # "" THEN Raise(common_blockers.exc)
            ELSE Return([team_productivity |-> AvgProductivity(rows),
                         total_updates |-> Len(rows),
                         active_projects |-> active_projects.val,
                         completed_tasks |-> completed_tasks.val,
                         common_blockers |-> common_blockers.val,
                         department_stats |-> department_stats])

\* lines 342-345
get_analytics_overview(period, members, upds, clock) ==
    Caught(OverviewBody(period, members, upds, clock))

(***************************************************************************)
(* get_semantic_similarity (routers/analytics.py).  A productivity score   *)
(* is counted in tenths; a similarity is an exact fraction.                *)
(***************************************************************************)
\* ORDER BY team_member_id, timestamp
RowBefore(a, b) ==
    \/ a.team_member_id < b.team_member_id
    \/ a.team_member_id = b.team_member_id /\ a.timestamp < b.timestamp

RECURSIVE InsertRow(_, _, _)
InsertRow(s, x, i) ==
    IF i > Len(s) \/ RowBefore(x, s[i])
        THEN SubSeq(s, 1, i - 1) \o <<x>> \o SubSeq(s, i, Len(s))
    ELSE InsertRow(s, x, i + 1)

RECURSIVE OrderedRows(_, _)
OrderedRows(s, n) ==
    IF n = 0 THEN <<>> ELSE InsertRow(OrderedRows(s, n - 1), s[n], 1)

\* the updates stamped at or after start_date, by member and then by time
WindowRows(upds, start_date) ==
    LET inside == SelectSeq(upds, LAMBDA u : u.timestamp >= start_date)
    IN  OrderedRows(inside, Len(inside))

\* " ".join(field_data): of an empty list, the empty string, so that the text
\* grows by the separating blank alone (an empty last word)
JoinedWords(field_data) ==
    IF field_data = <<>> THEN <<"">>
    ELSE Flatten([i \in 1..Len(field_data) |-> field_data[i].v], 1)

\* what one structured field adds to the text: nothing when the column is
\* empty, when it is no JSON, when the JSON is no list, or when the join
\* raises TypeError on an element that is no str
FieldWords(field_value) ==
    IF ~Truthy(field_value) THEN <<>>
    ELSE LET field_data == json_loads(field_value)
         IN  IF field_data.exc # "" THEN <<>>
             ELSE IF field_data.val.t # "list" THEN <<>>
             ELSE IF \E i \in 1..Len(field_data.val.v) : field_data.val.v[i].t # "str"
                 THEN <<>>
             ELSE JoinedWords(field_data.val.v)

CombinedText(update) ==
    update.update_text \o FieldWords(update.completed_tasks)
        \o FieldWords(update.project_progress) \o FieldWords(update.goals_status)
        \o FieldWords(update.blockers) \o FieldWords(update.next_week_plans)

\* update.productivity_score or 0.0
ScoreOrZero(productivity_score) ==
    IF productivity_score = <<>> THEN 0 ELSE productivity_score[1]

MemberUpdate(update) ==
    [id |-> update.id, timestamp |-> update.timestamp, text |-> CombinedText(update),
     productivity_score |-> ScoreOrZero(update.productivity_score)]

\* the keys of member_updates, in the order the rows first name them
RECURSIVE GroupKeys(_, _, _)
GroupKeys(keys, i, seen) ==
    IF i > Len(keys) THEN <<>>
    ELSE IF keys[i] \in seen THEN GroupKeys(keys, i + 1, seen)
    ELSE <<keys[i]>> \o GroupKeys(keys, i + 1, seen \cup {keys[i]})

MemberIds(rows) == GroupKeys([i \in 1..Len(rows) |-> rows[i].team_member_id], 1, {})

UpdatesOfMember(rows, member_id) ==
    LET own == SelectSeq(rows, LAMBDA u : u.team_member_id = member_id)
    IN  List([i \in 1..Len(own) |-> MemberUpdate(own[i])])

\* the embedding service: one vector for one text.  The coordinates of the
\* vectors are such that every norm, quotient, product and sum of the
\* similarity is exact in the handler's floating point.
EmbeddingVectors == <<<<2, 0, 0, 0>>, <<1, 1, 1, 1>>, <<1, 1, -1, -1>>, <<-2, 0, 0, 0>>>>
Embedding(text) == EmbeddingVectors[IF Len(text) \in 1..3 THEN Len(text) ELSE 4]

Dot(a, b) == a[1] * b[1] + a[2] * b[2] + a[3] * b[3] + a[4] * b[4]
VectorNorm(a) == CHOOSE n \in 0..Dot(a, a) : n * n = Dot(a, a)

\* np.dot of the two embeddings, each divided by its norm
CosineSimilarity(embedding1, embedding2) ==
    Rat(Dot(embedding1, embedding2), VectorNorm(embedding1) * VectorNorm(embedding2))

\* the day of a timestamp, as strftime("%Y-%m-%d") names it
DayOf(timestamp) == timestamp

\* update_embeddings: the embeddings of the updates whose call succeeded, in
\* the order of the updates
UpdateEmbeddings(member_updates, failing) ==
    LET embedded == SelectSeq(member_updates, LAMBDA u : u.id \notin failing)
    IN  List([i \in 1..Len(embedded) |-> Embedding(embedded[i].text)])

\* the i-th pass of the loop over range(1, len(update_embeddings)): the
\* similarity of embeddings i-1 and i, the dates and ids of updates i-1 and i
SimilarityScore(member_updates, update_embeddings, i) ==
    [score |-> CosineSimilarity(update_embeddings[i], update_embeddings[i + 1]),
     date1 |-> DayOf(member_updates[i].timestamp),
     date2 |-> DayOf(member_updates[i + 1].timestamp),
     update1_id |-> member_updates[i].id,
     update2_id |-> member_updates[i + 1].id]

SimilarityScores(member_updates, update_embeddings) ==
    List([i \in 1..(Len(update_embeddings) - 1) |->
            SimilarityScore(member_updates, update_embeddings, i)])

StalledPeriod(similarity_score) ==
    [start_date |-> similarity_score.date1, end_date |-> similarity_score.date2,
     similarity |-> similarity_score.score,
     update1_id |-> similarity_score.update1_id,
     update2_id |-> similarity_score.update2_id]

\* the pass flags a stalled period when the similarity reaches the threshold
\* and updates[i]'s score is not above updates[i-1]'s
IsStalled(member_updates, similarity_scores, i, threshold) ==
    /\ RatLeq(threshold, similarity_scores[i].score)
    /\ member_updates[i + 1].productivity_score <= member_updates[i].productivity_score

StalledPeriods(member_updates, similarity_scores, threshold) ==
    LET flagged == {i \in 1..Len(similarity_scores) :
                        IsStalled(member_updates, similarity_scores, i, threshold)}
        Kept(i) == Cardinality({j \in flagged : j <= i})
    IN  List([k \in 1..Cardinality(flagged) |->
                StalledPeriod(similarity_scores[CHOOSE i \in flagged : Kept(i) = k])])

RECURSIVE SumScores(_, _)
SumScores(similarity_scores, i) ==
    IF i > Len(similarity_scores) THEN Zero
    ELSE RatAdd(similarity_scores[i].score, SumScores(similarity_scores, i + 1))

\* sum(scores) / len(scores) over every pass of the loop
AverageSimilarity(similarity_scores) ==
    IF similarity_scores = <<>> THEN Zero
    ELSE RatMul(SumScores(similarity_scores, 1), <<1, Len(similarity_scores)>>)

MemberResult(team_member, member_updates, similarity_scores, stalled_periods) ==
    [team_member |-> team_member.name, role |-> team_member.role,
     department |-> team_member.department,
     average_similarity |-> AverageSimilarity(similarity_scores),
     update_count |-> Len(member_updates),
     similarity_trend |-> similarity_scores,
     stalled_periods |-> stalled_periods]

\* one member's turn of the loop: no result for fewer than two updates, for
\* a member the directory lacks, or when no period is flagged
AnalysedWith(team_member, member_updates, similarity_scores, threshold) ==
    LET stalled_periods == StalledPeriods(member_updates, similarity_scores, threshold)
    IN  IF stalled_periods = <<>> THEN <<>>
        ELSE <<MemberResult(team_member, member_updates, similarity_scores, stalled_periods)>>

AnalyseMember(members, member_id, member_updates, threshold, failing) ==
    IF Len(member_updates) < 2 THEN <<>>
    ELSE IF ~\E i \in 1..Len(members) : members[i].id = member_id THEN <<>>
    ELSE AnalysedWith(members[CHOOSE i \in 1..Len(members) : members[i].id = member_id],
                      member_updates,
                      SimilarityScores(member_updates,
                                       UpdateEmbeddings(member_updates, failing)),
                      threshold)

\* results.sort(key=average_similarity, reverse=True): descending, results of
\* equal average in the order they were appended
RECURSIVE InsertByAverage(_, _, _)
InsertByAverage(s, x, i) ==
    IF i > Len(s) \/ RatLt(s[i].average_similarity, x.average_similarity)
        THEN SubSeq(s, 1, i - 1) \o <<x>> \o SubSeq(s, i, Len(s))
    ELSE InsertByAverage(s, x, i + 1)

RECURSIVE SortByAverage(_, _)
SortByAverage(s, n) ==
    IF n = 0 THEN <<>> ELSE InsertByAverage(SortByAverage(s, n - 1), s[n], 1)

SimilarityResults(members, rows, threshold, failing) ==
    LET ids == MemberIds(rows)
        appended == Flatten([k \in 1..Len(ids) |->
                        AnalyseMember(members, ids[k], UpdatesOfMember(rows, ids[k]),
                                      threshold, failing)], 1)
    IN  SortByAverage(appended, Len(appended))

\* the calls of client.embeddings.create, in the order they are made: one for
\* each update of each member that has two updates or more
EmbeddingCallsOf(member_updates, failing) ==
    IF Len(member_updates) < 2 THEN <<>>
    ELSE List([i \in 1..Len(member_updates) |->
                [update_id |-> member_updates[i].id, input |-> member_updates[i].text,
                 failed |-> member_updates[i].id \in failing]])

EmbeddingCalls(members, rows, failing) ==
    LET known == SelectSeq(MemberIds(rows),
                           LAMBDA id : \E i \in 1..Len(members) : members[i].id = id)
    IN  Flatten([k \in 1..Len(known) |->
                    EmbeddingCallsOf(UpdatesOfMember(rows, known[k]), failing)], 1)

\* failing: the updates whose embedding call raises
get_semantic_similarity(days, threshold, members, upds, clock, failing) ==
    LET start_date == clock - days
        rows == WindowRows(upds, start_date)
    IN  Caught(Return([analysis_period |-> <<DayOf(start_date), DayOf(clock)>>,
                       similarity_threshold |-> threshold,
                       results |-> SimilarityResults(members, rows, threshold, failing)]))

(***************************************************************************)
(* get_keyword_repetition (main.py)                                        *)
(***************************************************************************)
\* ORDER BY team_members.name, updates.timestamp: the names of the directory
\* in the order of the database's string comparison
NamesInOrder ==
    <<<<"Ann", "-", "Developer">>, <<"Bob", "-", "Product", "Manager">>,
      <<"Cy", "-", "Senior", "Developer">>>>
NameRank(name) == CHOOSE i \in 1..Len(NamesInOrder) : NamesInOrder[i] = name

NamedRowBefore(a, b) ==
    \/ NameRank(a.name) < NameRank(b.name)
    \/ a.name = b.name /\ a.update.timestamp < b.update.timestamp

RECURSIVE InsertNamedRow(_, _, _)
InsertNamedRow(s, x, i) ==
    IF i > Len(s) \/ NamedRowBefore(x, s[i])
        THEN SubSeq(s, 1, i - 1) \o <<x>> \o SubSeq(s, i, Len(s))
    ELSE InsertNamedRow(s, x, i + 1)

RECURSIVE OrderedNamedRows(_, _)
OrderedNamedRows(s, n) ==
    IF n = 0 THEN <<>> ELSE InsertNamedRow(OrderedNamedRows(s, n - 1), s[n], 1)

\* the same rows without the lookback window
NamedRowsOfAllTime(members, upds, start_date) ==
    LET inside == Joined(members, upds)
        named == List([i \in 1..Len(inside) |->
                        [name |-> MemberOf(members, inside[i]).name,
                         update |-> inside[i]]])
    IN  OrderedNamedRows(named, Len(named))

\* the updates of known members stamped at or after start_date, each with
\* its member's name, by name and then by time
NamedRows(members, upds, start_date) ==
    LET inside == SelectSeq(Joined(members, upds), LAMBDA u : u.timestamp >= start_date)
        named == List([i \in 1..Len(inside) |->
                        [name |-> MemberOf(members, inside[i]).name,
                         update |-> inside[i]]])
    IN  OrderedNamedRows(named, Len(named))

\* member_updates[name]: the texts of one name's rows, sorted by timestamp
TextsOfName(rows, name) ==
    LET own == SelectSeq(rows, LAMBDA r : r.name = name)
    IN  List([i \in 1..Len(own) |-> CombinedText(own[i].update)])

\* text.lower() and re.sub(r'[^a-zA-Z\s]', '', text), seen word by word: the
\* blanks stay where they are, so each word keeps its letters, lowered
LettersOf(word) ==
    CASE word \in {"2", "80%", "-", ""} -> ""
      [] word = "testing!" -> "testing"
      [] word = "Testing" -> "testing"
      [] OTHER -> Lower(word)

\* len(word) > 3, for the words the texts hold
ShortWords == {"", "a", "b", "bug", "and", "key"}

\* simple_stop_words
simple_stop_words ==
    {"the", "a", "an", "and", "or", "but", "is", "are", "was", "were", "be", "been",
     "being", "to", "of", "for", "with", "that", "this", "these", "those", "it", "its",
     "in", "on", "at", "by", "from", "as", "have", "has", "had", "not", "no", "nor",
     "if", "else", "then", "when", "up", "down", "out", "over", "under", "again"}

\* stopwords.words('english'): the words of the corpus among those of four
\* letters or more that the texts hold
nltk_stop_words == {"with", "very", "again"}

\* WordNetLemmatizer().lemmatize(word): the noun's base form
Lemmatize(word) == IF word = "tests" THEN "test" ELSE word

\* the keywords of one text.  nltk is "full" when the stop words, the
\* tokenizer and the lemmatizer are at hand, "simple" when the stop words are
\* not; word_tokenize and split() part the lowered letters alike
Keywords(text, nltk) ==
    LET words == SelectSeq(List([i \in 1..Len(text) |-> LettersOf(text[i])]),
                           LAMBDA w : w # "")
        stop_words == IF nltk = "full" THEN nltk_stop_words ELSE simple_stop_words
        kept == SelectSeq(words, LAMBDA w : w \notin stop_words /\ w \notin ShortWords)
    IN  IF nltk = "full" THEN List([i \in 1..Len(kept) |-> Lemmatize(kept[i])]) ELSE kept

\* the words Counter(keywords) counts twice or more
SignificantKeywords(keywords) ==
    {keywords[i] : i \in {j \in 1..Len(keywords) :
                            \E k \in 1..Len(keywords) : k # j /\ keywords[k] = keywords[j]}}

\* repeated_keywords after "for keyword in repeated": a new keyword enters
\* at the end with count 1, a known one counts one more; order is the order
\* in which a set of these words is iterated
RECURSIVE CountRepeated(_, _, _, _)
CountRepeated(repeated_keywords, repeated, order, k) ==
    IF k > Len(order) THEN repeated_keywords
    ELSE IF order[k] \notin repeated
        THEN CountRepeated(repeated_keywords, repeated, order, k + 1)
    ELSE IF \E i \in 1..Len(repeated_keywords) : repeated_keywords[i].keyword = order[k]
        THEN CountRepeated([i \in 1..Len(repeated_keywords) |->
                              IF repeated_keywords[i].keyword = order[k]
                                  THEN [repeated_keywords[i] EXCEPT !.count = @ + 1]
                              ELSE repeated_keywords[i]],
                           repeated, order, k + 1)
    ELSE CountRepeated(Append(repeated_keywords, [keyword |-> order[k], count |-> 1]),
                       repeated, order, k + 1)

\* the same loop comparing with every earlier update, not the last alone
RECURSIVE RepeatedSinceAnyEarlier(_, _, _, _, _, _)
RepeatedSinceAnyEarlier(texts, i, prev_keywords, repeated_keywords, nltk, order) ==
    IF i > Len(texts) THEN repeated_keywords
    ELSE LET significant_keywords == SignificantKeywords(Keywords(texts[i], nltk))
         IN  RepeatedSinceAnyEarlier(texts, i + 1, significant_keywords \cup prev_keywords,
                                     IF i > 1 /\ prev_keywords # {}
                                         THEN CountRepeated(repeated_keywords,
                                                            significant_keywords \cap prev_keywords,
                                                            order, 1)
                                     ELSE repeated_keywords,
                                     nltk, order)

\* the loop over enumerate(updates), from update i on
RECURSIVE RepeatedKeywords(_, _, _, _, _, _)
RepeatedKeywords(texts, i, prev_keywords, repeated_keywords, nltk, order) ==
    IF i > Len(texts) THEN repeated_keywords
    ELSE LET significant_keywords == SignificantKeywords(Keywords(texts[i], nltk))
         IN  RepeatedKeywords(texts, i + 1, significant_keywords,
                              IF i > 1 /\ prev_keywords # {}
                                  THEN CountRepeated(repeated_keywords,
                                                     significant_keywords \cap prev_keywords,
                                                     order, 1)
                              ELSE repeated_keywords,
                              nltk, order)

KeywordResult(name, texts, repeated_keywords) ==
    IF repeated_keywords = <<>> THEN <<>>
    ELSE <<[team_member |-> name, repeated_keywords |-> repeated_keywords,
            total_updates |-> Len(texts)]>>

\* one name's turn of the loop: no result for fewer than two updates
KeywordsOfMember(name, texts, nltk, order) ==
    IF Len(texts) < 2 THEN <<>>
    ELSE KeywordResult(name, texts, RepeatedKeywords(texts, 1, {}, <<>>, nltk, order))

SumCounts(repeated_keywords) ==
    SumInts([i \in 1..Len(repeated_keywords) |-> repeated_keywords[i].count], 1)

\* results.sort(key=sum of the counts, reverse=True): descending, results of
\* equal sum in the order they were appended
RECURSIVE InsertBySum(_, _, _)
InsertBySum(s, x, i) ==
    IF i > Len(s) \/ SumCounts(s[i].repeated_keywords) < SumCounts(x.repeated_keywords)
        THEN SubSeq(s, 1, i - 1) \o <<x>> \o SubSeq(s, i, Len(s))
    ELSE InsertBySum(s, x, i + 1)

\* the results in the order they were appended
RECURSIVE AsAppended(_, _)
AsAppended(s, n) == IF n = 0 THEN <<>> ELSE Append(AsAppended(s, n - 1), s[n])

RECURSIVE SortBySum(_, _)
SortBySum(s, n) == IF n = 0 THEN <<>> ELSE InsertBySum(SortBySum(s, n - 1), s[n], 1)

KeywordResults(rows, nltk, order) ==
    LET names == GroupKeys([i \in 1..Len(rows) |-> rows[i].name], 1, {})
        appended == Flatten([k \in 1..Len(names) |->
                        KeywordsOfMember(names[k], TextsOfName(rows, names[k]),
                                         nltk, order)], 1)
    IN  SortBySum(appended, Len(appended))

\* the texts the loop reaches: those of the names with two updates or more
TextsReached(rows) ==
    UNION {{TextsOfName(rows, rows[i].name)[k] : k \in 1..Len(TextsOfName(rows, rows[i].name))} :
           i \in {j \in 1..Len(rows) : Len(TextsOfName(rows, rows[j].name)) >= 2}}

\* nltk "no_punkt": the stop words are at hand and the tokenizer's data are
\* not, so that the first word_tokenize raises LookupError; "no_wordnet": the
\* lemmatizer's data are not, so that the first word kept raises it.  The
\* handler turns the error into a 500.
KeywordBody(rows, nltk, order) ==
    IF \/ nltk = "no_punkt" /\ TextsReached(rows) # {}
       \/ nltk = "no_wordnet" /\ \E text \in TextsReached(rows) : Keywords(text, "full") # <<>>
        THEN Raise("LookupError")
    ELSE Return(KeywordResults(rows, nltk, order))

get_keyword_repetition(days, members, upds, clock, nltk, order) ==
    Caught(KeywordBody(NamedRows(members, upds, clock - days), nltk, order))

(***************************************************************************)
(* get_department_metrics (routers/analytics.py).  The query has no ORDER  *)
(* BY: the departments come in the order the database hands the rows over. *)
(***************************************************************************)
\* every ordering of a finite set of entries
Arrangements(entries) ==
    {s \in [1..Cardinality(entries) -> entries] :
        \A i, j \in 1..Cardinality(entries) : s[i] = s[j] => i = j}

\* len(parse_json_array(field))
NormalizedLength(field) == Len(parse_json_array(field).val.v)

\* update.team_member.department of the joined rows
DepartmentsOf(members, rows) ==
    {MemberOf(members, rows[i]).department : i \in 1..Len(rows)}

RowsOfDepartment(dept, members, rows) ==
    SelectSeq(rows, LAMBDA u : MemberOf(members, u).department = dept)

\* lines 132-163: what the loop gathers for one department, and the entry
\* made of it; productivity.append(update.productivity_score or 0)
DepartmentEntry(dept, members, rows) ==
    LET mine == RowsOfDepartment(dept, members, rows)
        productivity == [i \in 1..Len(mine) |-> ScoreOrZero(mine[i].productivity_score)]
    IN  [name |-> dept,
         productivity |-> IF productivity = <<>> THEN Zero
                          ELSE Rat(SumInts(productivity, 1), 10 * Len(productivity)),
         updates |-> Len(mine),
         blockers |-> SumInts([i \in 1..Len(mine) |-> NormalizedLength(mine[i].blockers)], 1),
         completedTasks |->
             SumInts([i \in 1..Len(mine) |-> NormalizedLength(mine[i].completed_tasks)], 1)]

\* lines 124-164: the body of the try statement, for every order of the rows
DepartmentBodies(members, upds) ==
    LET rows == Joined(members, upds) IN
    {Return(results) :
        results \in Arrangements({DepartmentEntry(dept, members, rows) :
                                    dept \in DepartmentsOf(members, rows)})}

\* lines 120-169
get_department_metrics(members, upds) ==
    {Caught(body) : body \in DepartmentBodies(members, upds)}

(***************************************************************************)
(* get_team_velocity (routers/analytics.py).  A timestamp is a number of   *)
(* days; day 0 is Monday 1 January of year 0 and a year has 365 days.      *)
(***************************************************************************)
DaysInYear == 365

\* %Y, and the day of the year counted from 0
YearOf(timestamp) == timestamp \div DaysInYear
DayOfYear(timestamp) == timestamp % DaysInYear

\* the day of the year of the year's first Monday
FirstMonday(year) == (7 - ((year * DaysInYear) % 7)) % 7

\* %W: the week of the year with Monday as its first day; the days before
\* the first Monday are in week 0
WeekOfYear(timestamp) ==
    (DayOfYear(timestamp) + 7 - FirstMonday(YearOf(timestamp))) \div 7

\* update.timestamp.strftime("%Y-W%W"), as the pair the string spells
strftime_week(timestamp) == <<YearOf(timestamp), WeekOfYear(timestamp)>>

\* the order of two such strings: four digits of year, then two of week
SprintBefore(a, b) == a[1] < b[1] \/ (a[1] = b[1] /\ a[2] < b[2])

\* the entries by ascending sprint
SortedAscending(s) ==
    \A i, j \in 1..Len(s) : i < j => ~SprintBefore(s[j].sprint, s[i].sprint)

\* results.sort(key=lambda x: x["sprint"], reverse=True)
SortedBySprint(s) ==
    \A i, j \in 1..Len(s) : i < j => ~SprintBefore(s[i].sprint, s[j].sprint)

\* lines 194-199: the join, narrowed to one department unless it is "all"
VelocityRows(department, members, upds) ==
    SelectSeq(Joined(members, upds),
              LAMBDA u : department # <<"all">>
                            => MemberOf(members, u).department = department)

\* a key for every department of the directory in every week of the rows
KeysOfEveryDepartment(members, rows) ==
    {<<strftime_week(rows[i].timestamp), members[k].department>> :
        i \in 1..Len(rows), k \in 1..Len(members)}

\* lines 208-221: the keys velocity_metrics[week][dept] the loop creates
VelocityKeys(members, rows) ==
    {<<strftime_week(rows[i].timestamp), MemberOf(members, rows[i]).department>> :
        i \in 1..Len(rows)}

\* lines 215-226: the entry of one week and department after the loop
VelocityEntry(week, dept, members, rows) ==
    LET mine == SelectSeq(rows, LAMBDA u : /\ strftime_week(u.timestamp) = week
                                           /\ MemberOf(members, u).department = dept)
    IN  [sprint |-> week,
         department |-> dept,
         planned |->
             SumInts([i \in 1..Len(mine) |-> NormalizedLength(mine[i].next_week_plans)], 1),
         completed |->
             SumInts([i \in 1..Len(mine) |-> NormalizedLength(mine[i].completed_tasks)], 1),
         update_count |-> Len(mine)]

\* lines 191-240: the body of the try statement, for every order of the rows
VelocityBodies(department, members, upds) ==
    LET rows == VelocityRows(department, members, upds) IN
    {Return(results) :
        results \in {s \in Arrangements({VelocityEntry(key[1], key[2], members, rows) :
                                            key \in VelocityKeys(members, rows)}) :
                        SortedBySprint(s)}}

\* lines 185-243
get_team_velocity(department, members, upds) ==
    {Caught(body) : body \in VelocityBodies(department, members, upds)}

(***************************************************************************)
(* analyze_weekly_update (main.py): the member of the request's name is    *)
(* looked up and, when there is none, created; then the update is stored.  *)
(* A name is its sequence of words, and " - " between two words is the     *)
(* word "-".                                                               *)
(***************************************************************************)
\* member_name.split(" - ")
RECURSIVE Split(_)
Split(name) ==
    IF \A i \in 1..Len(name) : name[i] # "-" THEN <<name>>
    ELSE LET k == CHOOSE i \in 1..Len(name) :
                    name[i] = "-" /\ \A j \in 1..(i - 1) : name[j] # "-"
         IN  <<SubSeq(name, 1, k - 1)>> \o Split(SubSeq(name, k + 1, Len(name)))

\* lines 491-492: role = name_parts[1] if len(name_parts) > 1 else "Unknown"
RoleOfName(member_name) ==
    LET name_parts == Split(member_name) IN
    IF Len(name_parts) > 1 THEN name_parts[2] ELSE <<"Unknown">>

\* the markers of get_department_from_role that the lowered word holds
MarkersIn(word) ==
    CASE word = "Developer" -> {"dev", "developer"}
      [] word = "Product" -> {"product"}
      [] word = "Security" -> {"it", "security"}
      [] word = "Quality" -> {"it", "quality"}
      [] OTHER -> {}

RoleHas(role, marker) == \E i \in 1..Len(role) : marker \in MarkersIn(role[i])

\* lines 187-207; no role of the model spells "service manager"
get_department_from_role(role) ==
    IF RoleHas(role, "product") THEN <<"Product", "Management">>
    ELSE IF RoleHas(role, "solution") THEN <<"Solutions">>
    ELSE IF RoleHas(role, "delivery") \/ RoleHas(role, "project")
        THEN <<"Service", "Delivery">>
    ELSE IF RoleHas(role, "quality") \/ RoleHas(role, "sre") \/ RoleHas(role, "performance")
        THEN <<"Service", "Assurance">>
    ELSE IF RoleHas(role, "it") \/ RoleHas(role, "infrastructure") \/ RoleHas(role, "security")
        THEN <<"IT">>
    ELSE IF RoleHas(role, "dev") \/ RoleHas(role, "developer") THEN <<"Development">>
    ELSE IF RoleHas(role, "platform") \/ RoleHas(role, "devops") \/ RoleHas(role, "cloud")
        THEN <<"Platform", "Engineering">>
    ELSE IF RoleHas(role, "hr") THEN <<"HR">>
    ELSE IF RoleHas(role, "legal") \/ RoleHas(role, "compliance") THEN <<"Legal">>
    ELSE <<"Unknown">>

\* line 488: db.query(models.TeamMember).filter_by(name=member_name).first(),
\* as the id found, or 0
MemberIdByName(members, member_name) ==
    IF \E i \in 1..Len(members) : members[i].name = member_name
    THEN members[CHOOSE i \in 1..Len(members) : members[i].name = member_name].id
    ELSE 0

\* the next value of an autoincrement primary key
NextId(rows) ==
    IF rows = <<>> THEN 1
    ELSE 1 + (CHOOSE n \in {rows[i].id : i \in 1..Len(rows)} :
                \A i \in 1..Len(rows) : rows[i].id <= n)

\* lines 493-497: models.TeamMember(name=member_name, role=role, department=department)
NewMember(members, member_name) ==
    [id |-> NextId(members), name |-> member_name, role |-> RoleOfName(member_name),
     department |-> get_department_from_role(RoleOfName(member_name))]

\* lines 506-515: models.Update(...) of an analysis that holds the defaults
\* of lines 477-480 for its lists and the score the language model named
NewUpdate(upds, member_id, text, score, clock) ==
    [id |-> NextId(upds), team_member_id |-> member_id, timestamp |-> clock,
     update_text |-> text,
     completed_tasks |-> json_dumps(PyList(<<>>)),
     project_progress |-> json_dumps(PyList(<<>>)),
     goals_status |-> json_dumps(PyList(<<>>)),
     blockers |-> json_dumps(PyList(<<>>)),
     next_week_plans |-> json_dumps(PyList(<<>>)),
     productivity_score |-> score]

(***************************************************************************)
(* Values the model draws its inputs from.                                 *)
(***************************************************************************)
SeqsUpTo(S, n) == UNION {[1..k -> S] : k \in 0..n}

Lexemes == {"[", "]", ",", Q, ":", "{", "}", "a", "5", "null"}

\* what a list read from JSON, or handed over by a caller, may hold
ElementValues ==
    {PyStr(<<"a">>), PyStr(<<"a", "b">>), PyInt("5"), PyNone,
     PyList(<<PyStr(<<"a">>)>>), PyDict(<<>>)}

ListValues == {PyList(items) : items \in SeqsUpTo(ElementValues, MaxItems)}

StringLists ==
    {PyList(items) : items \in SeqsUpTo({PyStr(<<"a">>), PyStr(<<"a", "b">>)}, MaxItems)}

ScalarValues ==
    {PyNone, PyInt("5"), PyBool("true"), PyStr(<<"a">>), PyDict(<<>>),
     PyDict(<<PyStr(<<"a">>), PyInt("5")>>)}

\* a str cut short by one lexeme
Truncated(x) == PyStr(SubSeq(x.v, 1, Len(x.v) - 1))

JsonTexts == {json_dumps(x) : x \in ListValues \cup ScalarValues}

NormalizerInputs ==
    (ScalarValues \ {PyStr(<<"a">>)})
        \cup ListValues
        \cup {PyStr(s) : s \in SeqsUpTo(Lexemes, MaxLex)}
        \cup JsonTexts
        \cup {Truncated(x) : x \in JsonTexts}

(***************************************************************************)
(* Update records and member records.                                      *)
(***************************************************************************)
JsonArray(texts) == json_dumps(PyList([i \in 1..Len(texts) |-> PyStr(texts[i])]))

Content(text, tasks, projects, goals, blockers, plans, score) ==
    [update_text |-> text, completed_tasks |-> tasks, project_progress |-> projects,
     goals_status |-> goals, blockers |-> blockers, next_week_plans |-> plans,
     productivity_score |-> score]

\* models.Update
Update(id, member_id, timestamp, content) ==
    [id |-> id, team_member_id |-> member_id, timestamp |-> timestamp,
     update_text |-> content.update_text,
     completed_tasks |-> content.completed_tasks,
     project_progress |-> content.project_progress,
     goals_status |-> content.goals_status,
     blockers |-> content.blockers,
     next_week_plans |-> content.next_week_plans,
     productivity_score |-> content.productivity_score]

\* models.TeamMember
TeamMember(id, name, role, department) ==
    [id |-> id, name |-> name, role |-> role, department |-> department]

PlainContent(score) ==
    Content(<<"a">>, PyNone, PyNone, PyNone, PyNone, PyNone, score)

RichContent ==
    Content(<<"collaborated", "and", "resolved", "a", "Bug">>,
            JsonArray(<<<<"implement", "a">>, <<"completed", "b">>>>),
            JsonArray(<<<<"a", "80%", "complete">>, <<"Critical", "b">>>>),
            JsonArray(<<<<"key", "milestone", "achieved">>, <<"b">>>>),
            JsonArray(<<>>),
            JsonArray(<<<<"a">>>>),
            <<8>>)

UnscoredContent ==
    Content(<<"improved", "a">>, JsonArray(<<<<"a">>>>), JsonArray(<<>>), JsonArray(<<>>),
            JsonArray(<<<<"Bug", "a">>>>), JsonArray(<<>>), <<>>)

\* completed_tasks holds text that is no JSON: an array left open
MalformedContent ==
    [PlainContent(<<5>>) EXCEPT !.completed_tasks = Truncated(JsonArray(<<<<"a">>>>))]

\* blockers holds JSON that is no array: a number
NonArrayContent ==
    [PlainContent(<<5>>) EXCEPT !.blockers = json_dumps(PyInt("5"))]

\* project_progress holds an array whose element is no string
NonStringContent ==
    [PlainContent(<<5>>) EXCEPT
        !.project_progress = json_dumps(PyList(<<PyList(<<PyStr(<<"a">>)>>)>>))]

WellFormedContents == {PlainContent(<<5>>), RichContent, UnscoredContent}
UpdateContents ==
    WellFormedContents \cup {MalformedContent, NonArrayContent, NonStringContent}

\* the member directory of the service
Directory ==
    <<TeamMember(1, <<"Ann", "-", "Developer">>, <<"Developer">>, <<"Development">>),
      TeamMember(2, <<"Bob", "-", "Product", "Manager">>, <<"Product", "Manager">>,
                 <<"Product", "Management">>),
      TeamMember(3, <<"Cy", "-", "Senior", "Developer">>, <<"Senior", "Developer">>,
                 <<"Development">>)>>

\* the members whose updates the model stores; the others never report
Authors == {1, 2}

\* how many days before now an update is stamped
Ages == {10, 100}

\* request parameters: each handler knows some of the tokens and not the others
RequestPeriods == {"7d", "30d", "180d", "365d"}
RequestTimeRanges == {"week", "quarter", "decade"}
RequestDepartments == {<<"all">>, <<"Development">>}

(***************************************************************************)
(* The state when no request has been handled and no function called.      *)
(***************************************************************************)
Today == 400

NoResponse == [op |-> "none", status |-> 0]
NoCall == [pc |-> "idle"]

(***************************************************************************)
(* The field normalizer on its own: parse_json_array applied to a value,   *)
(* then to its own result.                                                 *)
(***************************************************************************)
InitNormalizer ==
    /\ team_members = <<>>
    /\ updates = <<>>
    /\ now = Today
    /\ response = NoResponse
    /\ embedding_calls = <<>>
    /\ requests = <<>>
    /\ cm = NoCall
    /\ nz \in {[pc |-> "call", arg |-> x, ret |-> Return(PyNone), again |-> Return(PyNone)] :
                x \in NormalizerInputs}

Normalize ==
    /\ nz.pc = "call"
    /\ nz' = [nz EXCEPT !.pc = "returned", !.ret = parse_json_array(nz.arg)]
    /\ UNCHANGED <<team_members, updates, now, response, cm, embedding_calls, requests>>

Renormalize ==
    /\ nz.pc = "returned"
    /\ nz.ret.exc = ""
    /\ nz' = [nz EXCEPT !.pc = "renormalized", !.again = parse_json_array(nz.ret.val)]
    /\ UNCHANGED <<team_members, updates, now, response, cm, embedding_calls, requests>>

NextNormalizer == Normalize \/ Renormalize

SpecNormalizer == InitNormalizer /\ [][NextNormalizer]_vars

(***************************************************************************)
(* The service: a fixed member directory, a table of updates that grows,   *)
(* and the three read-only endpoints.  A response is taken by the client   *)
(* before the next operation starts.                                       *)
(***************************************************************************)
Init ==
    /\ team_members = Directory
    /\ updates = <<>>
    /\ now = Today
    /\ response = NoResponse
    /\ embedding_calls = <<>>
    /\ requests = <<>>
    /\ nz = NoCall
    /\ cm = NoCall

\* a row reaches the updates table (db.add(update); db.commit())
AddUpdate ==
    /\ response = NoResponse
    /\ Len(updates) < MaxUpdates
    /\ \E author \in Authors, age \in Ages, content \in UpdateContents :
          updates' = Append(updates, Update(Len(updates) + 1, author, now - age, content))
    /\ UNCHANGED <<team_members, now, response, nz, cm, embedding_calls, requests>>

\* GET /performance/employee-ratings?period=
GetEmployeeRatings(period) ==
    /\ response = NoResponse
    /\ response' = Deliver("employee-ratings", <<period>>,
                           get_employee_ratings(period, team_members, updates, now))
    /\ UNCHANGED <<team_members, updates, now, nz, cm, embedding_calls, requests>>

\* GET /analytics/productivity-trends?timeRange=&department=
GetProductivityTrends(timeRange, department) ==
    /\ response = NoResponse
    /\ \E outcome \in get_productivity_trends(timeRange, department,
                                              team_members, updates, now) :
          response' = Deliver("productivity-trends", <<timeRange, department>>, outcome)
    /\ UNCHANGED <<team_members, updates, now, nz, cm, embedding_calls, requests>>

\* GET /analytics/overview?period=
GetAnalyticsOverview(period) ==
    /\ response = NoResponse
    /\ response' = Deliver("overview", <<period>>,
                           get_analytics_overview(period, team_members, updates, now))
    /\ UNCHANGED <<team_members, updates, now, nz, cm, embedding_calls, requests>>

\* the client has read the response
Acknowledge ==
    /\ response # NoResponse
    /\ response' = NoResponse
    /\ UNCHANGED <<team_members, updates, now, nz, cm, embedding_calls, requests>>

Next ==
    \/ AddUpdate
    \/ \E period \in RequestPeriods : GetEmployeeRatings(period)
    \/ \E timeRange \in RequestTimeRanges, department \in RequestDepartments :
          GetProductivityTrends(timeRange, department)
    \/ \E period \in RequestPeriods : GetAnalyticsOverview(period)
    \/ Acknowledge

Spec == Init /\ [][Next]_vars

(***************************************************************************)
(* A team rated: up to MaxTeam members, each with one well-formed update   *)
(* in the window, low-scoring or high-scoring.                             *)
(***************************************************************************)
Team(size) ==
    [i \in 1..size |->
        TeamMember(i, <<"Member", ToString(i)>>, <<"Developer">>, <<"Development">>)]

Reports == {"low", "high"}

TeamUpdates(report) ==
    [i \in DOMAIN report |->
        Update(i, i, Today - 10,
               IF report[i] = "high" THEN RichContent ELSE PlainContent(<<5>>))]

InitTeam ==
    /\ \E size \in 0..MaxTeam :
          /\ team_members = Team(size)
          /\ \E report \in [1..size -> Reports] : updates = TeamUpdates(report)
    /\ now = Today
    /\ response = NoResponse
    /\ embedding_calls = <<>>
    /\ requests = <<>>
    /\ nz = NoCall
    /\ cm = NoCall

NextTeam ==
    \/ GetEmployeeRatings("30d")
    \/ Acknowledge

SpecTeam == InitTeam /\ [][NextTeam]_vars

(***************************************************************************)
(* calculate_metrics on its own: called on a batch of updates of one       *)
(* member, a window start and the clock's reading.                         *)
(***************************************************************************)
BatchAges == {3, 6, 10, 20}
WindowStarts == {Today - 30, Today - 90}
Clocks == {Today, Today + 7}

\* main.py lines 506-517 store float(analysis["Productivity_Score"]) as the
\* language model gave it; the range check of the response comes after the
\* commit.  An answer on a scale of ten leaves a score of 8.0 in the table.
OffScaleContent == PlainContent(<<80>>)

\* project strings with a percent sign and no digit, with digits and no
\* percent sign, and with digits that read 280
UnratedProjects ==
    [PlainContent(<<5>>) EXCEPT
        !.project_progress = JsonArray(<<<<"a", "%">>, <<"a", "80">>, <<"2", "80%">>>>)]

\* project strings that read 50, 100 and 0
RatedProjects ==
    [PlainContent(<<5>>) EXCEPT
        !.project_progress = JsonArray(<<<<"5", "0%">>, <<"100%">>, <<"0%">>>>)]

\* a text that says two of its terms twice
RepeatedTermsContent ==
    [PlainContent(<<5>>) EXCEPT
        !.update_text = <<"collaborated", "collaborated", "mentored", "mentored",
                          "helped", "team">>]

BatchContents ==
    UpdateContents \cup {OffScaleContent, UnratedProjects, RatedProjects, RepeatedTermsContent}

\* an update of a batch: a plain one of any age, or any content ten days old
BatchRows ==
    ({PlainContent(<<5>>)} \X BatchAges) \cup (BatchContents \X {10})

Batches ==
    {[i \in 1..Len(rows) |-> Update(i, 1, Today - rows[i][2], rows[i][1])] :
        rows \in SeqsUpTo(BatchRows, MaxBatch)}

InitMetrics ==
    /\ team_members = <<>>
    /\ updates = <<>>
    /\ now = Today
    /\ response = NoResponse
    /\ embedding_calls = <<>>
    /\ requests = <<>>
    /\ nz = NoCall
    /\ cm \in {[pc |-> "call", updates |-> batch, start_date |-> start, clock |-> clock,
                ret |-> Return(PyNone), overall_score |-> FloatZero] :
                batch \in Batches, start \in WindowStarts, clock \in Clocks}

CalculateMetrics ==
    /\ cm.pc = "call"
    /\ cm' = [cm EXCEPT !.pc = "returned",
                        !.ret = calculate_metrics(cm.updates, cm.start_date, cm.clock)]
    /\ UNCHANGED <<team_members, updates, now, response, nz, embedding_calls, requests>>

\* performance.py line 250: the score of the metrics just computed
CalculateOverallScore ==
    /\ cm.pc = "returned"
    /\ cm.ret.exc = ""
    /\ cm' = [cm EXCEPT !.pc = "scored", !.overall_score = calculate_overall_score(cm.ret.val)]
    /\ UNCHANGED <<team_members, updates, now, response, nz, embedding_calls, requests>>

NextMetrics == CalculateMetrics \/ CalculateOverallScore

SpecMetrics == InitMetrics /\ [][NextMetrics]_vars

(***************************************************************************)
(* calculate_overall_score applied to metrics handed to it directly.      *)
(***************************************************************************)
ScoredProductivity == {Zero, <<1, 2>>, One}
ScoredTasks == {0, 7, 20, 21, 40}
ScoredGoals == {0, 3, 10, 11}
ScoredCompletion == {Zero, <<4, 5>>, One}
ScoredFrequency == {Zero, <<7, 30>>, <<5, 1>>, <<6, 1>>}
UnscoredFields ==
    {[collaboration |-> Zero, impact |-> Zero, consistency |-> Zero, innovation |-> Zero,
      quality |-> Zero, resolved |-> 0, complexity |-> Zero, milestones |-> Zero,
      sharing |-> 0, contributions |-> 0],
     [collaboration |-> One, impact |-> <<1, 2>>, consistency |-> One, innovation |-> One,
      quality |-> One, resolved |-> 2, complexity |-> <<3, 2>>, milestones |-> One,
      sharing |-> 1, contributions |-> 3]}

MetricsInputs ==
    {PerformanceMetrics(p, t, g, c, f, u.collaboration, u.impact, u.consistency, u.innovation, u.quality, u.resolved, u.complexity, u.milestones, u.sharing, u.contributions) :
        p \in ScoredProductivity, t \in ScoredTasks, g \in ScoredGoals,
        c \in ScoredCompletion, f \in ScoredFrequency, u \in UnscoredFields}

InitScore ==
    /\ team_members = <<>>
    /\ updates = <<>>
    /\ now = Today
    /\ response = NoResponse
    /\ embedding_calls = <<>>
    /\ requests = <<>>
    /\ nz = NoCall
    /\ cm \in {[pc |-> "returned", updates |-> <<>>, start_date |-> Today, clock |-> Today,
                ret |-> Return(metrics), overall_score |-> FloatZero] :
                metrics \in MetricsInputs}

NextScore == CalculateOverallScore

SpecScore == InitScore /\ [][NextScore]_vars

(***************************************************************************)
(* The similarity analysis on its own: Ann reports a chain of updates, one *)
(* every five days, stored in the order written or in the opposite order;  *)
(* Bob reports nothing or two updates of one text.                         *)
(***************************************************************************)
TwoWordContent ==
    Content(<<"a">>, JsonArray(<<<<"b">>>>), PyNone, PyNone, PyNone, PyNone, <<7>>)

ChainContents ==
    {PlainContent(<<7>>), PlainContent(<<8>>), PlainContent(<<9>>), TwoWordContent,
     UnscoredContent}

\* the k-th of n updates, written 5 * (n - k) + 3 days ago
ChainUpdate(contents, k, id) ==
    Update(id, 1, Today - (5 * (Len(contents) - k) + 3), contents[k])

ChainTables(contents) ==
    {List([k \in 1..Len(contents) |-> ChainUpdate(contents, k, k)]),
     List([k \in 1..Len(contents) |->
            ChainUpdate(contents, Len(contents) + 1 - k, k)])}

BobTables(first_id) ==
    {<<>>,
     <<Update(first_id, 2, Today - 12, MalformedContent),
       Update(first_id + 1, 2, Today - 6, NonStringContent)>>}

StallTables ==
    UNION {{chain \o pair : chain \in ChainTables(contents),
                            pair \in BobTables(Len(contents) + 1)} :
           contents \in SeqsUpTo(ChainContents, MaxChain)}

SimilarityDays == {60, 10}
SimilarityThresholds == {<<17, 20>>, <<1, 2>>}

\* the embedding calls that fail in one analysis: none, or those of at most
\* MaxFailures updates
FailingSets(upds) ==
    {failing \in SUBSET {upds[i].id : i \in 1..Len(upds)} :
        Cardinality(failing) <= MaxFailures}

InitStall ==
    /\ team_members = Directory
    /\ updates \in StallTables
    /\ now = Today
    /\ response = NoResponse
    /\ embedding_calls = <<>>
    /\ requests = <<>>
    /\ nz = NoCall
    /\ cm = NoCall

\* GET /analytics/semantic-similarity?days=&threshold=
GetSemanticSimilarity(days, threshold, failing) ==
    /\ response = NoResponse
    /\ response' = Deliver("semantic-similarity", <<days, threshold>>,
                           get_semantic_similarity(days, threshold, team_members,
                                                   updates, now, failing))
    /\ embedding_calls' = EmbeddingCalls(team_members, WindowRows(updates, now - days),
                                         failing)
    /\ UNCHANGED <<team_members, updates, now, nz, cm, requests>>

NextStall ==
    \E days \in SimilarityDays, threshold \in SimilarityThresholds,
       failing \in FailingSets(updates) :
        GetSemanticSimilarity(days, threshold, failing)

SpecStall == InitStall /\ [][NextStall]_vars

(***************************************************************************)
(* The keyword analysis on its own: Ann reports a chain of updates, one    *)
(* every five days, stored in the order written or in the opposite order;  *)
(* Bob reports nothing, one update, one inside and one outside the shorter *)
(* window, or two inside it, each of a text with a word said twice.        *)
(***************************************************************************)
KeywordText(text) == Content(text, PyNone, PyNone, PyNone, PyNone, PyNone, <<5>>)

\* "deploy" once in the text and once more in a task
TaskKeywordContent ==
    Content(<<"deploy">>, JsonArray(<<<<"deploy", "2">>>>), PyNone, PyNone, PyNone, JsonArray(<<>>), <<5>>)

KeywordContents ==
    {KeywordText(<<"testing", "Testing", "very", "very">>),
     KeywordText(<<"tests", "test", "testing", "testing!">>),
     KeywordText(<<"bug", "bug", "with", "with", "deploy">>),
     TaskKeywordContent}

KeywordChains(contents) ==
    {List([k \in 1..Len(contents) |-> ChainUpdate(contents, k, k)]),
     List([k \in 1..Len(contents) |->
            ChainUpdate(contents, Len(contents) + 1 - k, k)])}

BobKeywordTables(first_id) ==
    {<<>>,
     <<Update(first_id, 2, Today - 4, TaskKeywordContent)>>,
     <<Update(first_id, 2, Today - 20, TaskKeywordContent),
       Update(first_id + 1, 2, Today - 4, TaskKeywordContent)>>,
     <<Update(first_id, 2, Today - 8, KeywordText(<<"testing", "Testing", "very", "very">>)),
       Update(first_id + 1, 2, Today - 4,
              KeywordText(<<"testing", "Testing", "very", "very">>))>>}

KeywordTables ==
    UNION {{chain \o rest : chain \in KeywordChains(contents),
                            rest \in BobKeywordTables(Len(contents) + 1)} :
           contents \in SeqsUpTo(KeywordContents, MaxChain)}

KeywordDays == {30, 10}
NltkResources == {"full", "simple", "no_punkt", "no_wordnet"}

\* the orders in which a set of the words reached may be iterated
IterationOrders(words) ==
    {order \in [1..Cardinality(words) -> words] :
        \A i, j \in 1..Cardinality(words) : order[i] = order[j] => i = j}

SignificantReached(rows, nltk) ==
    UNION {SignificantKeywords(Keywords(text, IF nltk = "simple" THEN "simple" ELSE "full")) :
           text \in TextsReached(rows)}

InitKeyword ==
    /\ team_members = Directory
    /\ updates \in KeywordTables
    /\ now = Today
    /\ response = NoResponse
    /\ embedding_calls = <<>>
    /\ requests = <<>>
    /\ nz = NoCall
    /\ cm = NoCall

\* GET /keyword-repetition?days=
GetKeywordRepetition(days, nltk) ==
    /\ response = NoResponse
    /\ \E order \in IterationOrders(SignificantReached(NamedRows(team_members, updates, now - days), nltk)) :
          response' = Deliver("keyword-repetition", <<days, nltk>>,
                              get_keyword_repetition(days, team_members, updates, now,
                                                     nltk, order))
    /\ UNCHANGED <<team_members, updates, now, nz, cm, embedding_calls, requests>>

NextKeyword ==
    \E days \in KeywordDays, nltk \in NltkResources : GetKeywordRepetition(days, nltk)

SpecKeyword == InitKeyword /\ [][NextKeyword]_vars

(***************************************************************************)
(* The analysis endpoints side by side on one store: the seven read-only   *)
(* operations of the routers, asked in any order of a table that holds     *)
(* updates of two departments, of one week and of different weeks.         *)
(***************************************************************************)
\* the rows a table is made of: <<author, age in days, content>>
AnalyticsRows ==
    {<<1, 10, RichContent>>, <<1, 12, UnscoredContent>>, <<1, 10, MalformedContent>>,
     <<1, 100, MalformedContent>>, <<2, 10, UnscoredContent>>, <<2, 12, RichContent>>,
     <<2, 100, RichContent>>}
VelocityDepartments == RequestDepartments \cup {<<"Sales">>}

AnalyticsTables ==
    UNION {{[i \in 1..k |-> Update(i, pick[i][1], Today - pick[i][2], pick[i][3])] :
              pick \in [1..k -> AnalyticsRows]} :
           k \in 0..MaxUpdates}

InitAnalytics ==
    /\ team_members = Directory
    /\ updates \in AnalyticsTables
    /\ now = Today
    /\ response = NoResponse
    /\ embedding_calls = <<>>
    /\ requests = <<>>
    /\ nz = NoCall
    /\ cm = NoCall

\* GET /analytics/departments
GetDepartmentMetrics ==
    /\ response = NoResponse
    /\ \E outcome \in get_department_metrics(team_members, updates) :
          response' = Deliver("departments", <<>>, outcome)
    /\ UNCHANGED <<team_members, updates, now, nz, cm, embedding_calls, requests>>

\* the velocity request, were it to keep only the rows it has read
GetTeamVelocityKeepingItsRows(department) ==
    /\ response = NoResponse
    /\ \E outcome \in get_team_velocity(department, team_members, updates) :
          response' = Deliver("velocity", <<department>>, outcome)
    /\ updates' = VelocityRows(department, team_members, updates)
    /\ UNCHANGED <<team_members, now, nz, cm, embedding_calls, requests>>

\* GET /analytics/velocity?department=
GetTeamVelocity(department) ==
    /\ response = NoResponse
    /\ \E outcome \in get_team_velocity(department, team_members, updates) :
          response' = Deliver("velocity", <<department>>, outcome)
    /\ UNCHANGED <<team_members, updates, now, nz, cm, embedding_calls, requests>>

NextAnalytics ==
    \/ \E period \in RequestPeriods : GetEmployeeRatings(period)
    \/ \E timeRange \in RequestTimeRanges, department \in RequestDepartments :
          GetProductivityTrends(timeRange, department)
    \/ GetDepartmentMetrics
    \/ \E department \in VelocityDepartments : GetTeamVelocity(department)
    \/ \E period \in RequestPeriods : GetAnalyticsOverview(period)
    \/ \E nltk \in {"full", "no_punkt"} : GetKeywordRepetition(30, nltk)
    \/ \E failing \in FailingSets(updates) : GetSemanticSimilarity(60, <<17, 20>>, failing)
    \/ Acknowledge

SpecAnalytics == InitAnalytics /\ [][NextAnalytics]_vars

(***************************************************************************)
(* POST /analyze served by several workers on one database: the requests   *)
(* advance statement by statement, in any interleaving.  A request is      *)
(* [name, llm, pc, member_id, status]; llm is what the language model did. *)
(***************************************************************************)
MaxRequests == 2

IntakeNames ==
    {Directory[1].name, <<"Dee", "-", "Security">>, <<"Eve">>,
     <<"Fay", "-", "Developer", "-", "Backend">>}

\* an answer with a score, an answer whose score is no number, no answer
LanguageModelOutcomes == {"answer", "no_number", "error"}

InitIntake ==
    /\ team_members = Directory
    /\ updates = <<>>
    /\ now = Today
    /\ response = NoResponse
    /\ embedding_calls = <<>>
    /\ requests = <<>>
    /\ nz = NoCall
    /\ cm = NoCall

Finished(r, status) == [requests EXCEPT ![r].pc = "done", ![r].status = status]

\* lines 418-480: the request arrives and the language model is asked; a
\* failure here leaves as HTTPException(500) through the outer handler
Analyze(name, llm) ==
    /\ Len(requests) < MaxRequests
    /\ requests' = Append(requests,
                          [name |-> name, llm |-> llm, member_id |-> 0,
                           pc |-> IF llm = "error" THEN "done" ELSE "lookup",
                           status |-> IF llm = "error" THEN 500 ELSE 0])
    /\ UNCHANGED <<team_members, updates, now, response, nz, cm, embedding_calls>>

\* line 488: the SELECT by name
Lookup(r) ==
    /\ requests[r].pc = "lookup"
    /\ LET found == MemberIdByName(team_members, requests[r].name) IN
       requests' = [requests EXCEPT ![r].member_id = found,
                                    ![r].pc = IF found = 0 THEN "create_member"
                                              ELSE "create_update"]
    /\ UNCHANGED <<team_members, updates, now, response, nz, cm, embedding_calls>>

\* lines 491-501: the INSERT and its commit; the unique index on name turns
\* down a second row of one name (IntegrityError, then HTTPException(500))
CreateMember(r) ==
    /\ requests[r].pc = "create_member"
    /\ IF MemberIdByName(team_members, requests[r].name) # 0
       THEN /\ requests' = Finished(r, 500)
            /\ UNCHANGED team_members
       ELSE /\ team_members' = Append(team_members, NewMember(team_members, requests[r].name))
            /\ requests' = [requests EXCEPT ![r].member_id = NextId(team_members),
                                            ![r].pc = "create_update"]
    /\ UNCHANGED <<updates, now, response, nz, cm, embedding_calls>>

\* lines 503-525: float(analysis["Productivity_Score"]) raises for a score
\* that is no number; otherwise the update is inserted and the analysis returned
CreateUpdate(r) ==
    /\ requests[r].pc = "create_update"
    /\ IF requests[r].llm = "no_number"
       THEN /\ requests' = Finished(r, 500)
            /\ UNCHANGED updates
       ELSE /\ updates' = Append(updates, NewUpdate(updates, requests[r].member_id,
                                                    <<"a">>, <<5>>, now))
            /\ requests' = Finished(r, 200)
    /\ UNCHANGED <<team_members, now, response, nz, cm, embedding_calls>>

NextIntake ==
    \/ \E name \in IntakeNames, llm \in LanguageModelOutcomes : Analyze(name, llm)
    \/ \E r \in 1..Len(requests) : Lookup(r)
    \/ \E r \in 1..Len(requests) : CreateMember(r)
    \/ \E r \in 1..Len(requests) : CreateUpdate(r)

SpecIntake == InitIntake /\ [][NextIntake]_vars

(* C7: parse_json_array never raises; None yields the empty list, a list is
   returned unchanged, a str holding a JSON array yields the array's elements
   in order, and every other value (a str holding other JSON or no JSON at
   all, a number, a mapping) yields the empty list. *)
C7_NormalizerTotal ==
    nz.pc \in {"returned", "renormalized"} =>
        /\ nz.ret.exc = ""
        /\ nz.arg.t = "none" => nz.ret.val = PyList(<<>>)
        /\ nz.arg.t = "list" => nz.ret.val = nz.arg
        /\ \A l \in ListValues : nz.arg = json_dumps(l) => nz.ret.val = l
        /\ (nz.arg.t = "str" /\ json_loads(nz.arg).exc = "" /\ json_loads(nz.arg).val.t = "list")
              => nz.ret.val = json_loads(nz.arg).val
        /\ (nz.arg.t = "str" /\ (nz.arg.v = <<>> \/ nz.arg.v[1] # "["))
              => nz.ret.val = PyList(<<>>)
        /\ (nz.arg.t = "str" /\ json_loads(nz.arg).exc # "") => nz.ret.val = PyList(<<>>)
        /\ nz.arg.t \in {"int", "bool", "dict"} => nz.ret.val = PyList(<<>>)

C7_Witness ==
    /\ nz.pc = "returned"
    /\ nz.arg = json_dumps(PyList(<<PyStr(<<"a", "b">>), PyStr(<<"a">>)>>))
    /\ nz.ret = Return(PyList(<<PyStr(<<"a", "b">>), PyStr(<<"a">>)>>))

(* C8: parse_json_array is idempotent: applied to its own result it returns
   that result. *)
C8_NormalizerIdempotent ==
    nz.pc = "renormalized" => nz.again = nz.ret

C8_Witness ==
    /\ nz.pc = "renormalized"
    /\ nz.arg.t = "str"
    /\ nz.ret.val.t = "list"
    /\ Len(nz.ret.val.v) = MaxItems
    /\ nz.again = nz.ret

(* C9: the result of parse_json_array is always a list whose elements are all
   strings. *)
C9_ResultIsListOfStrings ==
    nz.pc \in {"returned", "renormalized"} =>
        /\ nz.ret.exc = ""
        /\ nz.ret.val.t = "list"
        /\ \A i \in 1..Len(nz.ret.val.v) : nz.ret.val.v[i].t = "str"


(***************************************************************************)
(* What a ratings response is read against: the members with an update at  *)
(* or after the window start, and each listed employee's overall score.    *)
(***************************************************************************)
RatingsAnswered == response.op = "employee-ratings" /\ response.status = 200

ScoredMembers ==
    {m \in {team_members[i] : i \in DOMAIN team_members} :
        \E i \in DOMAIN updates :
            /\ updates[i].team_member_id = m.id
            /\ updates[i].timestamp >= now - period_days[response.args[1]]}

Listed ==
    response.body.top_performers \o response.body.strong_performers
        \o response.body.other_performers

\* the overall score of each listed employee, from the metrics in the response
ScoresFrom(listed, score) == List([i \in DOMAIN listed |-> score[listed[i].metrics]])
Scores(listed) ==
    ScoresFrom(listed, OverallScores(List([i \in DOMAIN listed |-> listed[i].metrics])))

\* the place of each listed employee in the member directory
DirectoryPositions(listed) ==
    List([i \in DOMAIN listed |->
            CHOOSE k \in DOMAIN team_members : team_members[k].name = listed[i].name])

(* C1: in a ratings response the three tier lists partition the ranked
   members: their lengths add up to N, the number of scored members, which is
   also total_employees; top_performers holds ranks 1..t in order,
   strong_performers the ranks that follow, other_performers the rest; and no
   member of strong_performers or other_performers has a strictly higher
   overall score than a member of top_performers. *)
C1_TierPartition ==
    RatingsAnswered =>
        LET top == response.body.top_performers
            strong == response.body.strong_performers
            other == response.body.other_performers
            score == Scores(Listed)
            N == Cardinality(ScoredMembers)
        IN  /\ Len(top) + Len(strong) + Len(other) = N
            /\ response.body.total_employees = N
            /\ \A i \in DOMAIN top : top[i].ranking = i
            /\ \A i \in DOMAIN strong : strong[i].ranking = Len(top) + i
            /\ \A i \in DOMAIN other : other[i].ranking = Len(top) + Len(strong) + i
            /\ \A i \in 1..Len(top), j \in (Len(top) + 1)..N : ~FloatLt(score[i], score[j])

\* a response with all three lists filled and a top score above the last one
C1_Witness ==
    /\ RatingsAnswered
    /\ response.body.top_performers # <<>>
    /\ response.body.strong_performers # <<>>
    /\ response.body.other_performers # <<>>
    /\ FloatLt(Scores(Listed)[Len(Listed)], Scores(Listed)[1])

(* C2: the ranking of a ratings response is a stable descending sort by
   overall score: the rankings are exactly 1..N, each used once; a member with
   a strictly higher score has a smaller rank; and of two members with equal
   scores the one the member directory yields first has the smaller rank. *)
C2_StableDescendingRanking ==
    RatingsAnswered =>
        LET listed == Listed
            score == Scores(listed)
            position == DirectoryPositions(listed)
            N == Cardinality(ScoredMembers)
        IN  /\ Len(listed) = N
            /\ {listed[i].ranking : i \in DOMAIN listed} = 1..N
            /\ \A i, j \in DOMAIN listed :
                 /\ FloatLt(score[j], score[i]) => listed[i].ranking < listed[j].ranking
                 /\ (score[i] = score[j] /\ position[i] < position[j])
                        => listed[i].ranking < listed[j].ranking

\* a response in which the sort moved a member ahead of an earlier one, and
\* which holds two members with equal scores
C2_Witness ==
    /\ RatingsAnswered
    /\ LET listed == Listed
           score == Scores(listed)
           position == DirectoryPositions(listed)
       IN  /\ \E i, j \in DOMAIN listed :
                 listed[i].ranking < listed[j].ranking /\ position[i] > position[j]
           /\ \E i, j \in DOMAIN listed : i # j /\ score[i] = score[j]

(* C3: for N >= 1 scored members, with topThreshold = max(1, floor(0.10*N))
   and strongThreshold = max(1, floor(0.30*N)), a member's performance_tier is
   the top label iff rank <= topThreshold, the next label iff topThreshold <
   rank <= strongThreshold, and the rest label otherwise; the label of each
   member agrees with the list that holds it; for N = 10, rank 1 is in the top
   tier, ranks 2-3 in the next and ranks 4-10 in the rest.  (The labels read
   "Top 10%", "Next 20%" and "Rest 70%".) *)
C3_TierThresholds ==
    (RatingsAnswered /\ Cardinality(ScoredMembers) >= 1) =>
        LET N == Cardinality(ScoredMembers)
            topThreshold == IF N \div 10 >= 1 THEN N \div 10 ELSE 1
            strongThreshold == IF (3 * N) \div 10 >= 1 THEN (3 * N) \div 10 ELSE 1
            top == response.body.top_performers
            strong == response.body.strong_performers
            other == response.body.other_performers
            listed == Listed
            ranks(list) == {list[i].ranking : i \in DOMAIN list}
        IN  /\ \A i \in DOMAIN listed :
                 /\ listed[i].performance_tier = "Top 10%"
                        <=> listed[i].ranking <= topThreshold
                 /\ listed[i].performance_tier = "Next 20%"
                        <=> (/\ topThreshold < listed[i].ranking
                             /\ listed[i].ranking <= strongThreshold)
                 /\ listed[i].performance_tier = "Rest 70%"
                        <=> (/\ topThreshold < listed[i].ranking
                             /\ strongThreshold < listed[i].ranking)
            /\ \A i \in DOMAIN top : top[i].performance_tier = "Top 10%"
            /\ \A i \in DOMAIN strong : strong[i].performance_tier = "Next 20%"
            /\ \A i \in DOMAIN other : other[i].performance_tier = "Rest 70%"
            /\ N = 10 => /\ ranks(top) = {1}
                         /\ ranks(strong) = {2, 3}
                         /\ ranks(other) = 4..10

\* a response that rates ten members
C3_Witness ==
    /\ RatingsAnswered
    /\ Cardinality(ScoredMembers) = 10
    /\ Len(response.body.strong_performers) = 2
    /\ Len(response.body.other_performers) = 7

(* C4: in the outcome of a ratings request for a known period, a member with
   no update at or after the window start appears in no tier list and is not
   counted in total_employees, and every member with such an update appears
   in exactly one tier list. *)
C4_WindowMembership ==
    (response.op = "employee-ratings" /\ response.args[1] \in DOMAIN period_days) =>
        \A i \in DOMAIN team_members :
            LET appearances ==
                    Cardinality({k \in DOMAIN Listed : Listed[k].name = team_members[i].name})
            IN  IF team_members[i] \in ScoredMembers
                    THEN response.status = 200 /\ appearances = 1
                ELSE response.status = 200 =>
                        /\ appearances = 0
                        /\ response.body.total_employees = Cardinality(ScoredMembers)

(* C5: an unknown period token given to get_employee_ratings or to
   get_analytics_overview, or an unknown timeRange token given to
   get_productivity_trends, is answered with status 400, which sets the
   outcome apart from an internal failure's status 500. *)
C5_UnknownTokenIsClientError ==
    (\/ response.op = "employee-ratings" /\ response.args[1] \notin DOMAIN period_days
     \/ response.op = "overview" /\ response.args[1] \notin DOMAIN overview_period_days
     \/ response.op = "productivity-trends" /\ response.args[1] \notin DOMAIN time_range_days)
        => response.status = 400

\* a structured field that holds text which is no JSON, or JSON that is no array
Malformed(raw) ==
    /\ raw.t = "str"
    /\ raw.v # <<>>
    /\ json_loads(raw).exc # "" \/ json_loads(raw).val.t # "list"

HasMalformedField(update) ==
    \/ Malformed(update.completed_tasks)
    \/ Malformed(update.goals_status)
    \/ Malformed(update.project_progress)
    \/ Malformed(update.blockers)

(* C6: when an update in the window has a malformed structured field (a
   non-empty string that is no JSON, or JSON that is no array), a ratings
   request for a known period still completes and returns the tier lists. *)
C6_MalformedFieldTolerated ==
    (/\ response.op = "employee-ratings"
     /\ response.args[1] \in DOMAIN period_days
     /\ \E i \in DOMAIN updates :
           /\ updates[i].timestamp >= now - period_days[response.args[1]]
           /\ HasMalformedField(updates[i]))
        => response.status = 200

\* the fields of a PerformanceMetrics that are whole numbers, and those that
\* are floats
CountFields ==
    {"completed_tasks_count", "goals_achieved", "blockers_resolved", "knowledge_sharing",
     "team_contributions"}
RatioFields ==
    {"productivity_score", "project_completion_rate", "update_frequency",
     "collaboration_score", "impact_score", "consistency_score", "innovation_score",
     "quality_score", "avg_task_complexity", "milestone_completion_rate"}

(* C10: calculate_metrics, called with no updates and any window start,
   returns without raising a PerformanceMetrics of 15 numeric fields, each of
   them 0 or 0.0. *)
C10_EmptyInputZeroLaw ==
    (cm.pc = "returned" /\ cm.updates = <<>>) =>
        /\ cm.ret.exc = ""
        /\ DOMAIN cm.ret.val = CountFields \cup RatioFields
        /\ Cardinality(DOMAIN cm.ret.val) = 15
        /\ \A field \in CountFields : cm.ret.val[field] = 0
        /\ \A field \in RatioFields : cm.ret.val[field] = <<0, 1>>

\* calculate_metrics has returned from a call with no updates
C10_Witness ==
    /\ cm.pc = "returned"
    /\ cm.updates = <<>>
    /\ cm.start_date = Today - 90
    /\ cm.ret.exc = ""


(***************************************************************************)
(* What a result of calculate_metrics is read against.                     *)
(***************************************************************************)
MetricsReturned == cm.pc = "returned" /\ cm.ret.exc = ""

\* the earliest and the latest day of the updates of a call
FirstDay(upds) ==
    CHOOSE d \in {upds[i].timestamp : i \in DOMAIN upds} :
        \A i \in DOMAIN upds : d <= upds[i].timestamp
LastDay(upds) ==
    CHOOSE d \in {upds[i].timestamp : i \in DOMAIN upds} :
        \A i \in DOMAIN upds : d >= upds[i].timestamp

(* C11, as amended: consistency_score is 0.0 for no updates, 1.0 for exactly
   one update, and for two or more updates it is 1 - (mean gap in days between
   consecutive date-sorted updates / 7), clamped to [0,1].  The gaps of the
   sorted dates add up to the span from the first day to the last. *)
C11_ConsistencyScore ==
    MetricsReturned =>
        LET n == Len(cm.updates)
            score == cm.ret.val.consistency_score
        IN  /\ n = 0 => score = <<0, 1>>
            /\ n = 1 => score = <<1, 1>>
            /\ n >= 2 =>
                 LET span == LastDay(cm.updates) - FirstDay(cm.updates)
                     raw == RatSub(<<1, 1>>, Rat(span, 7 * (n - 1)))
                 IN  score = IF RatLt(raw, <<0, 1>>) THEN <<0, 1>> ELSE raw

\* two updates that arrive latest first, with a score strictly inside (0,1)
C11_Witness ==
    /\ MetricsReturned
    /\ Len(cm.updates) = 2
    /\ cm.updates[1].timestamp > cm.updates[2].timestamp
    /\ RatLt(<<0, 1>>, cm.ret.val.consistency_score)
    /\ RatLt(cm.ret.val.consistency_score, <<1, 1>>)

(* C11, as stated: whenever calculate_metrics is given at most one update,
   consistency_score is 1.0. *)
C11_NoGapsIsOne ==
    (MetricsReturned /\ Len(cm.updates) <= 1) => cm.ret.val.consistency_score = <<1, 1>>


\* the weighted sum of the five named metrics, term by term
WeightedTerms(metrics) ==
    <<FloatMul(FloatOfRat(<<3, 10>>), FloatOfRat(metrics.productivity_score)),
      FloatMul(FloatOfRat(<<1, 5>>),
               FloatMin(FloatOne, FloatDiv(FloatOfInt(metrics.completed_tasks_count), 20))),
      FloatMul(FloatOfRat(<<1, 5>>),
               FloatMin(FloatOne, FloatDiv(FloatOfInt(metrics.goals_achieved), 10))),
      FloatMul(FloatOfRat(<<1, 5>>), FloatOfRat(metrics.project_completion_rate)),
      FloatMul(FloatOfRat(<<1, 10>>),
               FloatMin(FloatOne, FloatDiv(FloatOfRat(metrics.update_frequency), 5)))>>
SumOfTerms(term) ==
    FloatAdd(FloatAdd(FloatAdd(FloatAdd(term[1], term[2]), term[3]), term[4]), term[5])

\* metrics that keep the five named fields and hold zero in the other ten
NamedFieldsOnly(metrics) ==
    [EmptyMetrics EXCEPT !.productivity_score = metrics.productivity_score,
                         !.completed_tasks_count = metrics.completed_tasks_count,
                         !.goals_achieved = metrics.goals_achieved,
                         !.project_completion_rate = metrics.project_completion_rate,
                         !.update_frequency = metrics.update_frequency]

MetricsScored == cm.pc = "scored"

(* C12: calculate_overall_score returns 0.30*productivityScore
   + 0.20*min(1, completedTasksCount/20) + 0.20*min(1, goalsAchieved/10)
   + 0.20*projectCompletionRate + 0.10*min(1, updateFrequency/5); for every
   PerformanceMetrics that calculate_metrics produces the result lies in
   [0,1]; and the ten metrics not named in the formula have no effect on the
   result. *)
C12_WeightedSumInUnitRange ==
    MetricsScored =>
        LET score == cm.overall_score
        IN  /\ score = SumOfTerms(WeightedTerms(cm.ret.val))
            /\ FloatLeq(FloatZero, score)
            /\ FloatLeq(score, FloatOne)
            /\ score = calculate_overall_score(NamedFieldsOnly(cm.ret.val))

\* every stored productivity score of the call lies in [0,1]
ScoresOnScale ==
    \A i \in DOMAIN cm.updates :
        cm.updates[i].productivity_score # <<>> => cm.updates[i].productivity_score[1] <= 10

\* C12 for the calls whose stored productivity scores all lie in [0,1]
C12_OnScale == ScoresOnScale => C12_WeightedSumInUnitRange

\* metrics with the three capped terms cut back to their caps
Saturated(metrics) ==
    [metrics EXCEPT !.completed_tasks_count = IF @ > 20 THEN 20 ELSE @,
                    !.goals_achieved = IF @ > 10 THEN 10 ELSE @,
                    !.update_frequency = RatMin(@, <<5, 1>>)]

\* productivityScore 1, at least 20 tasks, at least 10 goals,
\* projectCompletionRate 1 and at least 5 updates a week
FullMarks(metrics) ==
    /\ metrics.productivity_score = One
    /\ metrics.completed_tasks_count >= 20
    /\ metrics.goals_achieved >= 10
    /\ metrics.project_completion_rate = One
    /\ RatLeq(<<5, 1>>, metrics.update_frequency)

(* C13, the saturation alone: raising completedTasksCount above 20,
   goalsAchieved above 10 or updateFrequency above 5 does not change the
   score. *)
C13_TermsSaturate ==
    MetricsScored => cm.overall_score = calculate_overall_score(Saturated(cm.ret.val))

(* C13: for metrics with productivityScore = 1, completedTasksCount = 20,
   goalsAchieved = 10, projectCompletionRate = 1 and updateFrequency = 5,
   calculate_overall_score yields exactly 1.0, and raising
   completedTasksCount above 20, goalsAchieved above 10 or updateFrequency
   above 5 does not change the score. *)
C13_FullMarksScoreOne ==
    MetricsScored =>
        /\ FullMarks(cm.ret.val) => cm.overall_score = FloatOne
        /\ cm.overall_score = calculate_overall_score(Saturated(cm.ret.val))

\* the project strings of all the updates of the call, in order
ProjectStrings == FieldOfAll(cm.updates, "project_progress", TRUE).val

\* the whole number a project string's digits read, for a string with digits
RateOf(project) == IntOf(DigitsOf(project, 1), Len(DigitsOf(project, 1)))

\* the positions of the strings that hold a percent sign and read 0..100
RatedPositions(projects) ==
    {i \in DOMAIN projects : /\ HasPercent(projects[i])
                              /\ DigitsOf(projects[i], 1) # <<>>
                              /\ RateOf(projects[i]) \in 0..100}

(* C14: projectCompletionRate is the mean, divided by 100, of the whole
   numbers read from the concatenated digits of the project strings that hold
   a percent sign, keeping only the values in 0..100; strings without a
   percent sign, without digits, or reading more than 100 contribute nothing;
   the rate is 0 when no value is kept, and it always lies in [0,1]. *)
C14_ProjectCompletionRate ==
    MetricsReturned =>
        LET projects == ProjectStrings
            rated == RatedPositions(projects)
            total == SumInts([i \in DOMAIN projects |->
                                IF i \in rated THEN RateOf(projects[i]) ELSE 0], 1)
            rate == cm.ret.val.project_completion_rate
        IN  /\ rated = {} => rate = <<0, 1>>
            /\ rated # {} => rate = Rat(total, 100 * Cardinality(rated))
            /\ RatLeq(<<0, 1>>, rate)
            /\ RatLeq(rate, <<1, 1>>)

\* six project strings, of which those reading 50, 100 and 0 are kept and the
\* one reading 280, the one without digits and the one without a percent
\* sign are not: the rate is 0.5
C14_Witness ==
    /\ MetricsReturned
    /\ LET projects == ProjectStrings
       IN  /\ Cardinality(RatedPositions(projects)) = 3
           /\ \E i \in DOMAIN projects :
                 HasPercent(projects[i]) /\ DigitsOf(projects[i], 1) = <<>>
           /\ \E i \in DOMAIN projects :
                 ~HasPercent(projects[i]) /\ DigitsOf(projects[i], 1) # <<>>
           /\ \E i \in DOMAIN projects :
                 /\ HasPercent(projects[i])
                 /\ DigitsOf(projects[i], 1) # <<>>
                 /\ RateOf(projects[i]) > 100
    /\ cm.ret.val.project_completion_rate = <<1, 2>>
(***************************************************************************)
(* get_semantic_similarity: the vocabulary of C15, C16, C17 and C20, read  *)
(* off the tables, the request and the log of embedding calls.             *)
(***************************************************************************)
SimilarityAnswered == response.op = "semantic-similarity"

\* the updates whose embedding call failed in the analysis answered
FailedCalls ==
    {embedding_calls[i].update_id :
        i \in {j \in DOMAIN embedding_calls : embedding_calls[j].failed}}

\* the member's updates inside the lookback window of the request
WindowOf(member_id) ==
    {updates[i] : i \in {j \in DOMAIN updates :
                            /\ updates[j].team_member_id = member_id
                            /\ updates[j].timestamp >= now - response.args[1]}}

\* the k-th of a set of updates in the order of their timestamps
Nth(set, k) ==
    CHOOSE u \in set : Cardinality({v \in set : v.timestamp < u.timestamp}) = k - 1

\* the member's comparison chain: the updates of the window that have an
\* embedding, when the window holds two updates or more
ChainOf(member_id) ==
    IF Cardinality(WindowOf(member_id)) < 2 THEN {}
    ELSE {u \in WindowOf(member_id) : u.id \notin FailedCalls}

PairSimilarity(u, v) ==
    CosineSimilarity(Embedding(CombinedText(u)), Embedding(CombinedText(v)))

\* similarity at or above the threshold, and the later score not above the earlier
Stalls(u, v) ==
    /\ RatLeq(response.args[2], PairSimilarity(u, v))
    /\ ScoreOrZero(v.productivity_score) <= ScoreOrZero(u.productivity_score)

StalledPairs(chain) ==
    {k \in 1..(Cardinality(chain) - 1) : Stalls(Nth(chain, k), Nth(chain, k + 1))}

MemberIdsKnown == {team_members[i].id : i \in DOMAIN team_members}
NameOfMember(member_id) ==
    (CHOOSE m \in {team_members[i] : i \in DOMAIN team_members} : m.id = member_id).name

\* the entries of the response for one member
ResultsOf(member_id) ==
    SelectSeq(response.body.results, LAMBDA r : r.team_member = NameOfMember(member_id))

RecordedPeriods(member_id) ==
    Flatten([i \in 1..Len(ResultsOf(member_id)) |->
                ResultsOf(member_id)[i].stalled_periods], 1)

RecordedTrend(member_id) ==
    Flatten([i \in 1..Len(ResultsOf(member_id)) |->
                ResultsOf(member_id)[i].similarity_trend], 1)

\* the recorded periods are those of the chain's stalled pairs, once each
PeriodsMatch(chain, periods) ==
    /\ Len(periods) = Cardinality(StalledPairs(chain))
    /\ \A k \in StalledPairs(chain) :
          \E i \in 1..Len(periods) :
              /\ periods[i].update1_id = Nth(chain, k).id
              /\ periods[i].update2_id = Nth(chain, k + 1).id

(* C16: when the embedding call of one update fails the analysis still answers,
   the update is left out of its member's chain, the member's remaining updates
   are compared pairwise in timestamp order, and the other members are
   analysed as they are without the failure. *)
TrendMatches(chain, trend) ==
    /\ Len(trend) = (IF chain = {} THEN 0 ELSE Cardinality(chain) - 1)
    /\ \A k \in 1..Len(trend) :
          /\ trend[k].update1_id = Nth(chain, k).id
          /\ trend[k].update2_id = Nth(chain, k + 1).id
          /\ trend[k].score = PairSimilarity(Nth(chain, k), Nth(chain, k + 1))

C16_FailedUpdateLeftOut ==
    (SimilarityAnswered /\ FailedCalls # {}) =>
        /\ response.status = 200
        /\ \A id \in MemberIdsKnown :
              ResultsOf(id) # <<>> => TrendMatches(ChainOf(id), RecordedTrend(id))
        /\ \A id \in MemberIdsKnown :
              WindowOf(id) \cap {u \in WindowOf(id) : u.id \in FailedCalls} = {} =>
                  PeriodsMatch(ChainOf(id), RecordedPeriods(id))

\* what holds of C16: the analysis answers, the similarities recorded are
\* those of the remaining updates in order, and a member none of whose calls
\* failed is analysed as without the failure
TrendScoresMatch(chain, trend) ==
    /\ Len(trend) = (IF chain = {} THEN 0 ELSE Cardinality(chain) - 1)
    /\ \A k \in 1..Len(trend) :
          trend[k].score = PairSimilarity(Nth(chain, k), Nth(chain, k + 1))

C16_AnalysisSurvives ==
    (SimilarityAnswered /\ FailedCalls # {}) =>
        /\ response.status = 200
        /\ \A id \in MemberIdsKnown :
              ResultsOf(id) # <<>> => TrendScoresMatch(ChainOf(id), RecordedTrend(id))
        /\ \A id \in MemberIdsKnown :
              WindowOf(id) \cap {u \in WindowOf(id) : u.id \in FailedCalls} = {} =>
                  PeriodsMatch(ChainOf(id), RecordedPeriods(id))

\* a failed call whose update is named in the answer
C16_FailedUpdateNamed ==
    /\ SimilarityAnswered
    /\ \E id \in MemberIdsKnown : \E k \in 1..Len(RecordedTrend(id)) :
          RecordedTrend(id)[k].update1_id \in FailedCalls

(* C15: for each consecutive pair of a member's chain a stalled period is
   recorded if and only if the pair's cosine similarity is at or above the
   threshold and the later score is not above the earlier one. *)
C15_StalledIffSimilarAndNotImproving ==
    SimilarityAnswered =>
        \A id \in MemberIdsKnown : PeriodsMatch(ChainOf(id), RecordedPeriods(id))

\* what holds of C15: the same, in the analyses where no embedding call failed
C15_WithoutFailures ==
    (SimilarityAnswered /\ FailedCalls = {}) =>
        \A id \in MemberIdsKnown : PeriodsMatch(ChainOf(id), RecordedPeriods(id))

\* a period recorded for a pair of updates that does not stall
C15_PeriodOfOtherPair ==
    /\ SimilarityAnswered
    /\ \E id \in MemberIdsKnown : \E i \in 1..Len(RecordedPeriods(id)) :
          \E u, v \in WindowOf(id) :
              /\ u.id = RecordedPeriods(id)[i].update1_id
              /\ v.id = RecordedPeriods(id)[i].update2_id
              /\ ~RatLeq(response.args[2], PairSimilarity(u, v))

(* C20: the embedding service is called at most twice for any one update of
   an analysis, and an update whose call failed is dropped from its member's
   similarity chain while the analysis goes on. *)
CallsFor(update_id) ==
    Cardinality({i \in DOMAIN embedding_calls : embedding_calls[i].update_id = update_id})

NamedUpdates(member_id) ==
    {RecordedTrend(member_id)[k].update1_id : k \in 1..Len(RecordedTrend(member_id))}
        \cup {RecordedTrend(member_id)[k].update2_id : k \in 1..Len(RecordedTrend(member_id))}

C20_CallsBoundedUpdateDropped ==
    SimilarityAnswered =>
        /\ response.status = 200
        /\ \A i \in DOMAIN updates : CallsFor(updates[i].id) <= 2
        /\ \A id \in MemberIdsKnown : NamedUpdates(id) \cap FailedCalls = {}

\* what holds of C20: one call at most for an update, none for the updates of
\* a member with a single update in the window, and an answer in every case
C20_OneCallAtMost ==
    SimilarityAnswered =>
        /\ response.status = 200
        /\ \A i \in DOMAIN updates :
              CallsFor(updates[i].id) =
                  (IF \E id \in MemberIdsKnown :
                         /\ updates[i] \in WindowOf(id)
                         /\ Cardinality(WindowOf(id)) >= 2
                      THEN 1 ELSE 0)

(* C17: the results hold exactly the members with two updates or more in the
   window and a stalled period; no result has an empty stalled_periods; the
   results are in non-increasing order of average_similarity, the mean of all
   the member's consecutive-pair similarities. *)
RECURSIVE SumPairs(_, _)
SumPairs(chain, k) ==
    IF k >= Cardinality(chain) THEN Zero
    ELSE RatAdd(PairSimilarity(Nth(chain, k), Nth(chain, k + 1)), SumPairs(chain, k + 1))

MeanPairSimilarity(chain) == RatMul(SumPairs(chain, 1), <<1, Cardinality(chain) - 1>>)

ResultsInOrder ==
    LET results == response.body.results
    IN  /\ \A i \in 1..Len(results) : results[i].stalled_periods # <<>>
        /\ \A i, j \in 1..Len(results) :
              i < j => RatLeq(results[j].average_similarity, results[i].average_similarity)
        /\ \A id \in MemberIdsKnown : \A i \in 1..Len(ResultsOf(id)) :
              ResultsOf(id)[i].average_similarity = MeanPairSimilarity(ChainOf(id))

MembersStalled ==
    {id \in MemberIdsKnown :
        Cardinality(WindowOf(id)) >= 2 /\ StalledPairs(ChainOf(id)) # {}}

C17_ResultsAreStalledMembers ==
    SimilarityAnswered =>
        /\ \A id \in MemberIdsKnown :
              Len(ResultsOf(id)) = (IF id \in MembersStalled THEN 1 ELSE 0)
        /\ Len(response.body.results) = Cardinality(MembersStalled)
        /\ ResultsInOrder

\* what holds of C17: the same where no embedding call failed, and the order,
\* the averages and the non-empty lists in every analysis
C17_WithoutFailures ==
    (SimilarityAnswered /\ FailedCalls = {}) =>
        /\ \A id \in MemberIdsKnown :
              Len(ResultsOf(id)) = (IF id \in MembersStalled THEN 1 ELSE 0)
        /\ Len(response.body.results) = Cardinality(MembersStalled)
        /\ ResultsInOrder

C17_OrderAndAverages == SimilarityAnswered => ResultsInOrder

\* two members reported, the second with the lower average
C17_TwoReported ==
    /\ SimilarityAnswered
    /\ Len(response.body.results) = 2
    /\ RatLt(response.body.results[2].average_similarity,
             response.body.results[1].average_similarity)

(***************************************************************************)
(* get_keyword_repetition: the vocabulary of C18 and C19.                  *)
(***************************************************************************)
KeywordsAnswered == response.op = "keyword-repetition" /\ response.status = 200

\* the tokens of an update, under the language resources of the request
TokensOf(u) ==
    Keywords(CombinedText(u), IF response.args[2] = "simple" THEN "simple" ELSE "full")

Occurrences(tokens, word) == Cardinality({j \in 1..Len(tokens) : tokens[j] = word})

\* the entries of the answer for one member, and the count it reports for a word
KeywordResultsOf(member_id) ==
    SelectSeq(response.body, LAMBDA r : r.team_member = NameOfMember(member_id))

ReportedFor(member_id, word) ==
    {r.count : r \in UNION {{KeywordResultsOf(member_id)[i].repeated_keywords[k] :
                                k \in 1..Len(KeywordResultsOf(member_id)[i].repeated_keywords)} :
                            i \in 1..Len(KeywordResultsOf(member_id))} \cap
                     [keyword : {word}, count : 0..MaxChain + 1]}

(* C18: a member with fewer than two updates inside the lookback window never
   appears in the answer of get_keyword_repetition, whatever its update says. *)
C18_SingleUpdateNeverReported ==
    KeywordsAnswered =>
        \A id \in MemberIdsKnown :
            Cardinality(WindowOf(id)) < 2 => KeywordResultsOf(id) = <<>>

\* Bob has one update in the window, with a word said twice, and another
\* before the window; Ann is reported and Bob is not
C18_Witness ==
    /\ KeywordsAnswered
    /\ response.body # <<>>
    /\ Cardinality(WindowOf(2)) = 1
    /\ \E i \in DOMAIN updates : updates[i].team_member_id = 2 /\ updates[i] \notin WindowOf(2)
    /\ \E u \in WindowOf(2) : Occurrences(TokensOf(u), "deploy") >= 2
    /\ KeywordResultsOf(2) = <<>>

(* C19: for each member and keyword the count reported is the number of
   updates, after the member's first in timestamp order, in which the keyword
   occurs twice or more among the tokens and occurs twice or more among the
   tokens of the update just before; a keyword of count 0 is not reported. *)
WordsReached == UNION {{TokensOf(updates[i])[k] : k \in 1..Len(TokensOf(updates[i]))} : i \in DOMAIN updates}

RepeatsOf(member_id, word) ==
    {i \in 2..Cardinality(WindowOf(member_id)) :
        /\ Occurrences(TokensOf(Nth(WindowOf(member_id), i)), word) >= 2
        /\ Occurrences(TokensOf(Nth(WindowOf(member_id), i - 1)), word) >= 2}

C19_CountOfConsecutiveRepeats ==
    KeywordsAnswered =>
        \A id \in MemberIdsKnown :
            /\ Len(KeywordResultsOf(id)) <= 1
            /\ \A i \in 1..Len(KeywordResultsOf(id)) :
                  \A k \in 1..Len(KeywordResultsOf(id)[i].repeated_keywords) :
                      /\ KeywordResultsOf(id)[i].repeated_keywords[k].count > 0
                      /\ KeywordResultsOf(id)[i].repeated_keywords[k].keyword \in WordsReached
                      /\ \A l \in 1..Len(KeywordResultsOf(id)[i].repeated_keywords) :
                            KeywordResultsOf(id)[i].repeated_keywords[l].keyword =
                                KeywordResultsOf(id)[i].repeated_keywords[k].keyword => l = k
            /\ \A word \in WordsReached :
                  ReportedFor(id, word) =
                      (IF RepeatsOf(id, word) = {} THEN {}
                       ELSE {Cardinality(RepeatsOf(id, word))})

\* one word counted for both pairs of three updates, and another that is
\* said twice in the first and the third update alone and is not reported
C19_Witness ==
    /\ KeywordsAnswered
    /\ Cardinality(WindowOf(1)) = 3
    /\ \E word \in WordsReached : ReportedFor(1, word) = {2}
    /\ \E word \in WordsReached :
          /\ Occurrences(TokensOf(Nth(WindowOf(1), 1)), word) >= 2
          /\ Occurrences(TokensOf(Nth(WindowOf(1), 2)), word) < 2
          /\ Occurrences(TokensOf(Nth(WindowOf(1), 3)), word) >= 2
          /\ ReportedFor(1, word) = {}

(* C29: the answer of get_keyword_repetition holds only members with a
   keyword of count 1 or more, in non-increasing order of the sum of their
   counts, and every count lies between 1 and total_updates - 1. *)
C29_ReportedCountsInRange ==
    KeywordsAnswered =>
        /\ \A i \in 1..Len(response.body) :
              /\ response.body[i].repeated_keywords # <<>>
              /\ \A k \in 1..Len(response.body[i].repeated_keywords) :
                    /\ response.body[i].repeated_keywords[k].count >= 1
                    /\ response.body[i].repeated_keywords[k].count
                          <= response.body[i].total_updates - 1
        /\ \A i, j \in 1..Len(response.body) :
              i < j => SumInts([k \in 1..Len(response.body[j].repeated_keywords) |->
                                  response.body[j].repeated_keywords[k].count], 1)
                        <= SumInts([k \in 1..Len(response.body[i].repeated_keywords) |->
                                      response.body[i].repeated_keywords[k].count], 1)

\* Bob, later by name, is reported before Ann with the larger sum of counts
C29_Witness ==
    /\ KeywordsAnswered
    /\ Len(response.body) = 2
    /\ response.body[1].team_member = NameOfMember(2)
    /\ response.body[2].team_member = NameOfMember(1)
    /\ Len(response.body[1].repeated_keywords) = 2
    /\ \E k \in 1..Len(response.body[2].repeated_keywords) :
          response.body[2].repeated_keywords[k].count = response.body[2].total_updates - 1

(* C30: every similarity entry and every stalled period of
   get_semantic_similarity names the two updates whose embeddings were
   compared, and a stall is decided on the scores of those two updates, also
   after the embedding call of an earlier update of the member has failed. *)
UpdateNamed(member_id, update_id) ==
    CHOOSE u \in WindowOf(member_id) \cup {[id |-> 0]} :
        u.id = update_id \/ (u.id = 0 /\ \A v \in WindowOf(member_id) : v.id # update_id)

NamesComparedPair(member_id, entry, similarity) ==
    LET u == UpdateNamed(member_id, entry.update1_id)
        v == UpdateNamed(member_id, entry.update2_id)
    IN  /\ u.id # 0 /\ v.id # 0
        /\ u.id \notin FailedCalls /\ v.id \notin FailedCalls
        /\ entry.date1 = DayOf(u.timestamp) /\ entry.date2 = DayOf(v.timestamp)
        /\ similarity = PairSimilarity(u, v)
        /\ \E k \in 1..(Cardinality(ChainOf(member_id)) - 1) :
              u = Nth(ChainOf(member_id), k) /\ v = Nth(ChainOf(member_id), k + 1)

PeriodAsEntry(period) ==
    [date1 |-> period.start_date, date2 |-> period.end_date,
     update1_id |-> period.update1_id, update2_id |-> period.update2_id]

C30_EntriesNameComparedPair ==
    SimilarityAnswered =>
        \A id \in MemberIdsKnown :
            /\ \A k \in 1..Len(RecordedTrend(id)) :
                  NamesComparedPair(id, RecordedTrend(id)[k], RecordedTrend(id)[k].score)
            /\ \A k \in 1..Len(RecordedPeriods(id)) :
                  /\ NamesComparedPair(id, PeriodAsEntry(RecordedPeriods(id)[k]),
                                       RecordedPeriods(id)[k].similarity)
                  /\ Stalls(UpdateNamed(id, RecordedPeriods(id)[k].update1_id),
                            UpdateNamed(id, RecordedPeriods(id)[k].update2_id))

\* what holds of C30: the same, in the analyses where the calls that failed
\* were for the last updates of their members' windows
FailedLastOnly ==
    \A id \in MemberIdsKnown : \A u \in WindowOf(id) : \A v \in WindowOf(id) :
        (u.id \in FailedCalls /\ u.timestamp < v.timestamp) => v.id \in FailedCalls

C30_WhenLastCallsFail ==
    (SimilarityAnswered /\ FailedLastOnly) =>
        \A id \in MemberIdsKnown :
            /\ \A k \in 1..Len(RecordedTrend(id)) :
                  NamesComparedPair(id, RecordedTrend(id)[k], RecordedTrend(id)[k].score)
            /\ \A k \in 1..Len(RecordedPeriods(id)) :
                  /\ NamesComparedPair(id, PeriodAsEntry(RecordedPeriods(id)[k]),
                                       RecordedPeriods(id)[k].similarity)
                  /\ Stalls(UpdateNamed(id, RecordedPeriods(id)[k].update1_id),
                            UpdateNamed(id, RecordedPeriods(id)[k].update2_id))

\* a last call failed and the member is reported all the same
C30_LastCallFailed ==
    /\ SimilarityAnswered
    /\ FailedLastOnly
    /\ \E id \in MemberIdsKnown :
          /\ ResultsOf(id) # <<>>
          /\ \E u \in WindowOf(id) : u.id \in FailedCalls

(* C22: calculate_metrics is a function of the update sequence and the
   window start alone: called again with the same two arguments at any other
   time it returns the same PerformanceMetrics. *)
MetricsCalled == cm.pc \in {"returned", "scored"}

C22_SameArgumentsSameMetrics ==
    MetricsCalled =>
        \A clock \in Clocks : calculate_metrics(cm.updates, cm.start_date, clock) = cm.ret

\* what holds of C22: at another time the call raises as before or returns
\* metrics that differ in update_frequency at most
SameButFrequency(ret, other) ==
    /\ other.exc = ret.exc
    /\ ret.exc = "" =>
          [other.val EXCEPT !.update_frequency = Zero] =
              [ret.val EXCEPT !.update_frequency = Zero]

C22_OnlyFrequencyFollowsTheClock ==
    MetricsCalled =>
        \A clock \in Clocks :
            SameButFrequency(cm.ret, calculate_metrics(cm.updates, cm.start_date, clock))

\* the same two arguments a week later, and another update_frequency
C22_FrequencyDiffers ==
    /\ MetricsCalled
    /\ cm.ret.exc = ""
    /\ \E clock \in Clocks :
          /\ clock # cm.clock
          /\ calculate_metrics(cm.updates, cm.start_date, clock).val.update_frequency
                # cm.ret.val.update_frequency

(* C27: for a non-empty update sequence the collaboration, impact,
   consistency, innovation and quality scores and the milestone and project
   completion rates returned lie in [0,1]; the milestone rate is the achieved
   milestone-class goals over the milestone-class goals, 0 when there is
   none; the quality score is 1 - min(1, quality-issue blockers over
   max(1, completed tasks)); and no division by zero takes place. *)
GoalStrings == FieldOfAll(cm.updates, "goals_status", FALSE).val
BlockerStrings == FieldOfAll(cm.updates, "blockers", FALSE).val
TaskStrings == FieldOfAll(cm.updates, "completed_tasks", FALSE).val

MilestoneGoals ==
    {i \in DOMAIN GoalStrings :
        \E t \in {<<"milestone">>, <<"major">>, <<"key">>, <<"critical">>} :
            TermIn(t, GoalStrings[i])}

AchievedMilestones ==
    {i \in MilestoneGoals :
        TermIn(<<"complete">>, GoalStrings[i]) \/ TermIn(<<"achieved">>, GoalStrings[i])}

QualityBlockers ==
    {i \in DOMAIN BlockerStrings :
        \E t \in {<<"bug">>, <<"issue">>, <<"error">>} : TermIn(t, BlockerStrings[i])}

InUnitRange(x) == RatLeq(Zero, x) /\ RatLeq(x, One)

C27_RatiosInUnitRange ==
    /\ cm.pc = "returned" => cm.ret.exc # "ZeroDivisionError"
    /\ (MetricsReturned /\ cm.updates # <<>>) =>
          /\ InUnitRange(cm.ret.val.collaboration_score)
          /\ InUnitRange(cm.ret.val.impact_score)
          /\ InUnitRange(cm.ret.val.consistency_score)
          /\ InUnitRange(cm.ret.val.innovation_score)
          /\ InUnitRange(cm.ret.val.quality_score)
          /\ InUnitRange(cm.ret.val.milestone_completion_rate)
          /\ InUnitRange(cm.ret.val.project_completion_rate)
          /\ Cardinality(AchievedMilestones) <= Cardinality(MilestoneGoals)
          /\ cm.ret.val.milestone_completion_rate =
                (IF MilestoneGoals = {} THEN Zero
                 ELSE Rat(Cardinality(AchievedMilestones), Cardinality(MilestoneGoals)))
          /\ cm.ret.val.quality_score =
                RatSub(One, RatMin(One, Rat(Cardinality(QualityBlockers),
                                            IF Len(TaskStrings) >= 1 THEN Len(TaskStrings)
                                            ELSE 1)))

\* two updates with two goals, one of them an achieved milestone, and a
\* blocker that names a bug, fewer than the completed tasks
C27_Witness ==
    /\ MetricsReturned
    /\ Len(cm.updates) = 2
    /\ Len(GoalStrings) = 2
    /\ Cardinality(MilestoneGoals) = 1
    /\ cm.ret.val.milestone_completion_rate = One
    /\ QualityBlockers # {}
    /\ RatLt(Zero, cm.ret.val.quality_score)
    /\ RatLt(cm.ret.val.quality_score, One)

(* C28: knowledge_sharing is the total number of occurrences of the five
   sharing terms in the updates' texts, team_contributions that of the four
   team-help terms, and collaboration_score is min(1, occurrences of the five
   collaboration terms / (2 * number of updates)); a term that occurs k times
   in one text counts k times. *)
TermOccurrences(term, text) ==
    Cardinality({i \in 1..(Len(text) - Len(term) + 1) :
                    IF Len(term) = 1 THEN WordHas(text[i], term[1])
                    ELSE \A j \in 1..Len(term) : Lower(text[i + j - 1]) = term[j]})

RECURSIVE OccurrencesOfAll(_, _)
OccurrencesOfAll(terms, text) ==
    IF terms = {} THEN 0
    ELSE LET term == CHOOSE t \in terms : TRUE
         IN  TermOccurrences(term, text) + OccurrencesOfAll(terms \ {term}, text)

TotalOccurrences(terms) ==
    SumInts([i \in 1..Len(cm.updates) |-> OccurrencesOfAll(terms, cm.updates[i].update_text)], 1)

\* the pairs of an update and a term that the update's text holds
TermsPresent(terms) ==
    Cardinality({p \in (1..Len(cm.updates)) \X terms : TermIn(p[2], cm.updates[p[1]].update_text)})

C28_CountsOfOccurrences ==
    (MetricsReturned /\ cm.updates # <<>>) =>
        /\ cm.ret.val.knowledge_sharing =
              TotalOccurrences({<<"documented">>, <<"trained">>, <<"presented">>,
                                <<"shared">>, <<"mentored">>})
        /\ cm.ret.val.team_contributions =
              TotalOccurrences({<<"helped", "team">>, <<"supported", "colleague">>,
                                <<"assisted">>, <<"mentored">>})
        /\ cm.ret.val.collaboration_score =
              RatMin(One, Rat(TotalOccurrences({<<"collaborated">>, <<"worked", "with">>,
                                               <<"helped">>, <<"supported">>, <<"paired">>}),
                              2 * Len(cm.updates)))

\* what holds of C28: each count is the number of pairs of an update and a
\* term that the update's text holds, whatever the number of times it holds it
C28_CountsOfTermsPresent ==
    (MetricsReturned /\ cm.updates # <<>>) =>
        /\ cm.ret.val.knowledge_sharing =
              TermsPresent({<<"documented">>, <<"trained">>, <<"presented">>,
                            <<"shared">>, <<"mentored">>})
        /\ cm.ret.val.team_contributions =
              TermsPresent({<<"helped", "team">>, <<"supported", "colleague">>,
                            <<"assisted">>, <<"mentored">>})
        /\ cm.ret.val.collaboration_score =
              RatMin(One, Rat(TermsPresent({<<"collaborated">>, <<"worked", "with">>,
                                           <<"helped">>, <<"supported">>, <<"paired">>}),
                              2 * Len(cm.updates)))

\* an update whose text says "mentored" twice, counted once
C28_TermSaidTwice ==
    /\ MetricsReturned
    /\ Len(cm.updates) = 1
    /\ TermOccurrences(<<"mentored">>, cm.updates[1].update_text) = 2
    /\ cm.ret.val.knowledge_sharing = 1

(***************************************************************************)
(* The department and velocity answers, read against the store.            *)
(***************************************************************************)
DepartmentsAnswered == response.op = "departments" /\ response.status = 200

DepartmentOfAuthor(member_id) ==
    (CHOOSE m \in {team_members[i] : i \in 1..Len(team_members)} : m.id = member_id).department

StoredOf(dept) ==
    SelectSeq(updates, LAMBDA u : DepartmentOfAuthor(u.team_member_id) = dept)

DepartmentsStored == {DepartmentOfAuthor(updates[i].team_member_id) : i \in 1..Len(updates)}

TotalLength(rows, field) ==
    SumInts([i \in 1..Len(rows) |-> NormalizedLength(rows[i][field])], 1)

\* the mean of the scores that are present, 0.0 when none is
MeanOfPresent(rows) ==
    LET present == SelectSeq(rows, LAMBDA u : u.productivity_score # <<>>) IN
    IF present = <<>> THEN Zero
    ELSE Rat(SumInts([i \in 1..Len(present) |-> present[i].productivity_score[1]], 1),
             10 * Len(present))

\* the mean over all the rows, an absent score counted as 0
MeanWithAbsentAsZero(rows) ==
    IF rows = <<>> THEN Zero
    ELSE Rat(SumInts([i \in 1..Len(rows) |->
                        IF rows[i].productivity_score = <<>> THEN 0
                        ELSE rows[i].productivity_score[1]], 1),
             10 * Len(rows))

\* one entry per department that has an update, with its counts
CountsPerDepartment ==
    /\ {response.body[i].name : i \in 1..Len(response.body)} = DepartmentsStored
    /\ Len(response.body) = Cardinality(DepartmentsStored)
    /\ \A i \in 1..Len(response.body) :
          /\ response.body[i].updates = Len(StoredOf(response.body[i].name))
          /\ response.body[i].blockers = TotalLength(StoredOf(response.body[i].name), "blockers")
          /\ response.body[i].completedTasks =
                 TotalLength(StoredOf(response.body[i].name), "completed_tasks")
    /\ SumInts([i \in 1..Len(response.body) |-> response.body[i].updates], 1) = Len(updates)
    /\ SumInts([i \in 1..Len(response.body) |-> response.body[i].completedTasks], 1) =
           TotalLength(updates, "completed_tasks")

(* C26: get_department_metrics returns one entry per department that has   *)
(* an update; its productivity is the mean productivityScore of the        *)
(* department's updates (absent scores excluded, 0.0 when none is          *)
(* present), its updates their number, its blockers and completedTasks the *)
(* total lengths of the normalized fields; over all entries the updates    *)
(* add up to the number of records and the completedTasks to the number of *)
(* completed-task entries of the store.                                    *)
C26_DepartmentEntries ==
    DepartmentsAnswered =>
        /\ CountsPerDepartment
        /\ \A i \in 1..Len(response.body) :
              response.body[i].productivity = MeanOfPresent(StoredOf(response.body[i].name))

\* what holds of C26: the counts are as stated, and the productivity is the
\* mean over all the department's updates with an absent score taken as 0
C26_AbsentScoreCountedAsZero ==
    DepartmentsAnswered =>
        /\ CountsPerDepartment
        /\ \A i \in 1..Len(response.body) :
              response.body[i].productivity =
                  MeanWithAbsentAsZero(StoredOf(response.body[i].name))

\* a department with a scored and an unscored update has been reported
C26_MixedDepartmentReported ==
    /\ DepartmentsAnswered
    /\ \E i \in 1..Len(response.body) :
          /\ \E k \in 1..Len(updates) :
                /\ DepartmentOfAuthor(updates[k].team_member_id) = response.body[i].name
                /\ updates[k].productivity_score = <<>>
          /\ \E k \in 1..Len(updates) :
                /\ DepartmentOfAuthor(updates[k].team_member_id) = response.body[i].name
                /\ updates[k].productivity_score # <<>>

VelocityAnswered == response.op = "velocity" /\ response.status = 200

\* the updates that pass the department filter of the request
PassingFilter ==
    SelectSeq(updates, LAMBDA u : response.args[1] # <<"all">>
                                    => DepartmentOfAuthor(u.team_member_id) = response.args[1])

PairsPassing ==
    {<<strftime_week(PassingFilter[i].timestamp),
       DepartmentOfAuthor(PassingFilter[i].team_member_id)>> : i \in 1..Len(PassingFilter)}

UpdatesOfPair(week, dept) ==
    SelectSeq(PassingFilter, LAMBDA u : /\ strftime_week(u.timestamp) = week
                                        /\ DepartmentOfAuthor(u.team_member_id) = dept)

(* C25: get_team_velocity returns exactly one entry per (week, department) *)
(* pair that has an update passing the department filter; its completed is *)
(* the sum of the normalized completedTasks lengths and its planned the    *)
(* sum of the normalized nextWeekPlans lengths over the updates of the     *)
(* pair; the entries come by non-increasing week key; with a filter other  *)
(* than "all" every entry belongs to the department asked for.             *)
C25_VelocityPerWeekAndDepartment ==
    VelocityAnswered =>
        /\ {<<response.body[i].sprint, response.body[i].department>> :
                i \in 1..Len(response.body)} = PairsPassing
        /\ Len(response.body) = Cardinality(PairsPassing)
        /\ \A i \in 1..Len(response.body) :
              /\ response.body[i].completed =
                     TotalLength(UpdatesOfPair(response.body[i].sprint,
                                               response.body[i].department), "completed_tasks")
              /\ response.body[i].planned =
                     TotalLength(UpdatesOfPair(response.body[i].sprint,
                                               response.body[i].department), "next_week_plans")
              /\ response.args[1] # <<"all">> => response.body[i].department = response.args[1]
        /\ \A i, j \in 1..Len(response.body) :
              i < j => \/ response.body[i].sprint[1] > response.body[j].sprint[1]
                       \/ /\ response.body[i].sprint[1] = response.body[j].sprint[1]
                          /\ response.body[i].sprint[2] >= response.body[j].sprint[2]

\* an entry that sums the tasks and plans of two updates of different days of
\* one week, in an answer narrowed to one department
C25_Witness ==
    /\ VelocityAnswered
    /\ response.args[1] = <<"Development">>
    /\ \E i \in 1..Len(response.body) :
          /\ response.body[i].update_count = 2
          /\ response.body[i].completed >= 3
          /\ response.body[i].planned >= 1
          /\ \E k, l \in 1..Len(updates) :
                /\ updates[k].timestamp # updates[l].timestamp
                /\ strftime_week(updates[k].timestamp) = strftime_week(updates[l].timestamp)

TrendsAnswered == response.op = "productivity-trends" /\ response.status = 200
OverviewAnswered == response.op = "overview" /\ response.status = 200

\* the updates a trends bucket of one day and department stands for
UpdatesOfDay(date, dept) ==
    SelectSeq(updates, LAMBDA u : /\ u.timestamp = date
                                  /\ DepartmentOfAuthor(u.team_member_id) = dept
                                  /\ u.timestamp >= now - time_range_days[response.args[1]]
                                  /\ u.timestamp <= now)

UpdatesInPeriod ==
    SelectSeq(updates, LAMBDA u : u.timestamp >= now - overview_period_days[response.args[1]])

EmptySummary ==
    [team_productivity |-> Zero, total_updates |-> 0, active_projects |-> {},
     completed_tasks |-> {}, common_blockers |-> {}, department_stats |-> <<>>]

(* C24: every bucket emitted by get_productivity_trends,                   *)
(* get_department_metrics and get_team_velocity has at least one           *)
(* contributing update and a record count of at least 1; none is emitted   *)
(* with a zero count; when no update falls in the period                   *)
(* get_analytics_overview returns the minimal empty summary.               *)
C24_NoEmptyBucket ==
    /\ TrendsAnswered =>
          \A i \in 1..Len(response.body) :
              /\ response.body[i].updates >= 1
              /\ response.body[i].updates =
                     Len(UpdatesOfDay(response.body[i].date, response.body[i].department))
    /\ DepartmentsAnswered =>
          \A i \in 1..Len(response.body) :
              /\ response.body[i].updates >= 1
              /\ response.body[i].updates = Len(StoredOf(response.body[i].name))
    /\ VelocityAnswered =>
          \A i \in 1..Len(response.body) :
              /\ response.body[i].update_count >= 1
              /\ response.body[i].update_count =
                     Len(UpdatesOfPair(response.body[i].sprint, response.body[i].department))
    /\ (OverviewAnswered /\ UpdatesInPeriod = <<>>) => response.body = EmptySummary

\* a velocity answer for a store where each of two departments reported in
\* a week of its own: two buckets, and none for the other department's week
C24_Witness ==
    /\ VelocityAnswered
    /\ response.args[1] = <<"all">>
    /\ Len(response.body) = 2
    /\ response.body[1].sprint # response.body[2].sprint
    /\ response.body[1].department # response.body[2].department

\* the empty summary for a store whose updates are all older than the period
C24_EmptySummaryReached ==
    /\ OverviewAnswered
    /\ updates # <<>>
    /\ UpdatesInPeriod = <<>>
    /\ response.body = EmptySummary

AnalysisOps ==
    {"employee-ratings", "productivity-trends", "departments", "velocity", "overview",
     "keyword-repetition", "semantic-similarity"}

\* the answers an operation can give when it runs alone on a store
AnswersAlone(op, args, members, upds, clock) ==
    CASE op = "employee-ratings" ->
            {Deliver(op, args, get_employee_ratings(args[1], members, upds, clock))}
      [] op = "productivity-trends" ->
            {Deliver(op, args, outcome) :
                outcome \in get_productivity_trends(args[1], args[2], members, upds, clock)}
      [] op = "departments" ->
            {Deliver(op, args, outcome) : outcome \in get_department_metrics(members, upds)}
      [] op = "velocity" ->
            {Deliver(op, args, outcome) :
                outcome \in get_team_velocity(args[1], members, upds)}
      [] op = "overview" ->
            {Deliver(op, args, get_analytics_overview(args[1], members, upds, clock))}
      [] op = "keyword-repetition" ->
            {Deliver(op, args, get_keyword_repetition(args[1], members, upds, clock,
                                                      args[2], order)) :
                order \in IterationOrders(SignificantReached(
                              NamedRows(members, upds, clock - args[1]), args[2]))}
      [] op = "semantic-similarity" ->
            {Deliver(op, args, get_semantic_similarity(args[1], args[2], members, upds,
                                                       clock, failing)) :
                failing \in FailingSets(upds)}

NamesOf(members) == {members[i].name : i \in 1..Len(members)}

MembersNamed(members, name) == {i \in 1..Len(members) : members[i].name = name}

UniqueNames(members) ==
    \A i, j \in 1..Len(members) : members[i].name = members[j].name => i = j

FirstSeparator(name) ==
    CHOOSE i \in 1..Len(name) : name[i] = "-" /\ \A j \in 1..(i - 1) : name[j] # "-"

\* the text after " - " in the name, or "Unknown"
TextAfterSeparator(name) ==
    IF \A i \in 1..Len(name) : name[i] # "-" THEN <<"Unknown">>
    ELSE SubSeq(name, FirstSeparator(name) + 1, Len(name))

\* the text between the first " - " and the next one, or "Unknown"
TextAfterSeparatorUpToNext(name) ==
    LET rest == TextAfterSeparator(name) IN
    IF \A i \in 1..Len(rest) : rest[i] # "-" THEN rest
    ELSE SubSeq(rest, 1, FirstSeparator(rest) - 1)

\* a step of the directory, roles being the role of each name: no member goes
\* or changes, at most one comes, of a name that a request carries and no
\* member had, and names stay unique; a request that is answered 200 has
\* exactly one member of its name
DirectoryStep(roles) ==
    /\ UniqueNames(team_members')
    /\ Len(team_members') \in {Len(team_members), Len(team_members) + 1}
    /\ SubSeq(team_members', 1, Len(team_members)) = team_members
    /\ Len(team_members') = Len(team_members) + 1 =>
          LET member == team_members'[Len(team_members')] IN
          /\ member.name \notin NamesOf(team_members)
          /\ \E r \in 1..Len(requests) : requests[r].name = member.name
          /\ member.role = roles[member.name]
    /\ \A r \in 1..Len(requests') :
          requests'[r].status = 200 =>
              Cardinality(MembersNamed(team_members', requests'[r].name)) = 1

(* C23: after any interleaving of analyze_weekly_update requests the       *)
(* directory holds at most one member per name: a request for a known name *)
(* creates no member, a request for an unknown name creates exactly one    *)
(* member, whose role is the text after " - " in the name or "Unknown",    *)
(* two concurrent requests for one unknown name never leave two members of *)
(* that name, and no request deletes a member.                             *)
C23_OneMemberPerName ==
    [][DirectoryStep([name \in IntakeNames |-> TextAfterSeparator(name)])]_vars

\* what holds of C23: the same, with the role the text between the first
\* " - " of the name and the next one
C23_RoleEndsAtNextSeparator ==
    [][DirectoryStep([name \in IntakeNames |->
                        TextAfterSeparatorUpToNext(name)])]_vars

\* two requests of one unknown name have both found no member; one has
\* created it and the other has been turned down
C23_SecondCreationTurnedDown ==
    /\ Len(requests) = 2
    /\ requests[1].name = requests[2].name
    /\ requests[1].llm = "answer" /\ requests[2].llm = "answer"
    /\ requests[1].status = 200
    /\ requests[2].status = 500
    /\ Cardinality(MembersNamed(team_members, requests[1].name)) = 1

\* a member created from a name with two separators
C23_RoleCutShort ==
    \E i \in 1..Len(team_members) :
        /\ team_members[i].role # TextAfterSeparator(team_members[i].name)
        /\ team_members[i].role = TextAfterSeparatorUpToNext(team_members[i].name)

=============================================================================
